---- MODULE Spec2Model ----
(***************************************************************************)
(* EVA assistant: the command-intent router (core/commands.py), the chat   *)
(* handler that drives it (api/routes.py chat_message) and the stores and  *)
(* integrations the executor calls.                                        *)
(*                                                                         *)
(* Texts are abstracted to the features the parser reads: which of the 31  *)
(* pattern rules succeed on the text (re.search), and the captured groups. *)
(* Russian strings are transliterated to ASCII.  Time is counted in        *)
(* minutes.                                                                *)
(***************************************************************************)
EXTENDS Integers, Sequences, FiniteSets, TLC

VARIABLES
    now,        \* wall clock, datetime.now(), in minutes
    family,     \* the command family a behaviour exercises (exploration bound)
    handled,    \* number of chat requests received so far
    pc,         \* position of the chat_message handler
    req,        \* the ChatMessageRequest being handled
    cmd,        \* parser.parse(...) outcome (CommandResult, or the exception
                \* raised) and the time parse ran
    ret,        \* execute_command(...) outcome: (success, message), or raised
    reply,      \* final_response / response_text of the handler
    trace,      \* collaborator calls made while handling the current request
    thrown,     \* exception raised inside the current execute_command, if any
    soft_failure, \* a collaborator answered the current command success=false
    jobs,       \* ProactiveScheduler: the one-time reminder jobs
    notes,      \* NotesManager: notes file of each user
    tasks,      \* NotesManager: tasks file of each user
    habits,     \* HabitTracker: habits file of each user
    habit_logs, \* HabitTracker: logs file of each user
    moods,      \* MoodTracker: mood file of each user
    feedbacks,  \* LearningModule: number of feedbacks applied, per user
    memory,     \* MemoryManager: number of messages kept, per user
    cfg,        \* which integrations are configured / connected
    fe_states,  \* find_entity_by_name: argument states_result
    fe_name,    \* find_entity_by_name: argument name
    fe_result,  \* find_entity_by_name: returned entity id
    workers,    \* store operations in flight: position and the list loaded
    weather     \* WeatherService: the data handed to format_current

vars == << now, family, handled, pc, req, cmd, ret, reply, trace, thrown,
           soft_failure, jobs, notes,
           tasks, habits, habit_logs, moods, feedbacks, memory, cfg,
           fe_states, fe_name, fe_result, workers, weather >>

-----------------------------------------------------------------------------
(* Bounds of the exploration *)

MaxClock == 1
MaxRequests == 2
MaxMatched == 2
MaxAmount == 1
MaxDevices == 2

Users == {"alice", "bob"}

\* Free text captured from a message (titles, contents, names, devices):
\* sequences of characters.  "A" is the upper case of "a".
Titles == { <<"a">>, <<"A", "b">> }

Chars == {"a", "b", "A"}

LowerChar(c) == IF c = "A" THEN "a" ELSE c

\* str.lower()
Lower(s) == [i \in 1..Len(s) |-> LowerChar(s[i])]

\* Python's  sub in s  on strings
Contains(sub, s) ==
    \E i \in 0..(Len(s) - Len(sub)) :
        \A j \in 1..Len(sub) : s[i + j] = sub[j]

None == "None"
NoTitle == << >>

\* A message text: a fixed template (tag) with its interpolated values.
Msg(tag, n, text, detail) ==
    [tag |-> tag, n |-> n, text |-> text, detail |-> detail]

NoneMsg == Msg(None, 0, NoTitle, "")

\* bool(message): None and "" are falsy
Truthy(m) == m.tag # None /\ m.tag # ""

-----------------------------------------------------------------------------
(* Pattern Library: the rules in the order CommandParser.parse tries them *)

TIME_QUERY == 1
DATE_QUERY == 2
REMINDER_WITH_TEXT == 3
MINUTES_PATTERN == 4
HOURS_PATTERN == 5
TIMER_PATTERN == 6
POMODORO_PATTERN == 7
POMODORO_BREAK_PATTERN == 8
WEATHER_CURRENT == 9
WEATHER_FORECAST == 10
NOTE_ADD == 11
NOTE_LIST == 12
NOTE_SEARCH == 13
TASK_ADD_URGENT == 14
TASK_ADD == 15
TASK_LIST == 16
TASK_DONE == 17
MOOD_STATS == 18
MOOD_LOG == 19
CALENDAR_TODAY == 20
CALENDAR_UPCOMING == 21
BRIEFING_PATTERN == 22
HABIT_STATUS == 23
HABIT_ADD == 24
HABIT_LIST == 25
HABIT_DONE == 26
LEARNING_STATUS == 27
LEARNING_FEEDBACK == 28
TURN_ON_PATTERN == 29
TURN_OFF_PATTERN == 30
DEVICE_STATUS_PATTERN == 31

Rules == TIME_QUERY..DEVICE_STATUS_PATTERN

\* The closed set of intent tags (spec section 3)
IntentTags ==
    { "time", "date", "reminder", "timer", "pomodoro", "break", "weather",
      "note_add", "note_list", "note_search", "task_add", "task_list",
      "task_done", "mood_log", "mood_stats", "calendar_today",
      "calendar_upcoming", "briefing", "habit_add", "habit_list",
      "habit_done", "habit_status", "learning_status", "learning_feedback",
      "smart_home" }

\* The intent tag each rule of the library produces
TagOfRule(r) ==
    CASE r = TIME_QUERY -> "time"
      [] r = DATE_QUERY -> "date"
      [] r \in {REMINDER_WITH_TEXT, MINUTES_PATTERN, HOURS_PATTERN} -> "reminder"
      [] r = TIMER_PATTERN -> "timer"
      [] r = POMODORO_PATTERN -> "pomodoro"
      [] r = POMODORO_BREAK_PATTERN -> "break"
      [] r \in {WEATHER_CURRENT, WEATHER_FORECAST} -> "weather"
      [] r = NOTE_ADD -> "note_add"
      [] r = NOTE_LIST -> "note_list"
      [] r = NOTE_SEARCH -> "note_search"
      [] r \in {TASK_ADD_URGENT, TASK_ADD} -> "task_add"
      [] r = TASK_LIST -> "task_list"
      [] r = TASK_DONE -> "task_done"
      [] r = MOOD_STATS -> "mood_stats"
      [] r = MOOD_LOG -> "mood_log"
      [] r = CALENDAR_TODAY -> "calendar_today"
      [] r = CALENDAR_UPCOMING -> "calendar_upcoming"
      [] r = BRIEFING_PATTERN -> "briefing"
      [] r = HABIT_STATUS -> "habit_status"
      [] r = HABIT_ADD -> "habit_add"
      [] r = HABIT_LIST -> "habit_list"
      [] r = HABIT_DONE -> "habit_done"
      [] r = LEARNING_STATUS -> "learning_status"
      [] r = LEARNING_FEEDBACK -> "learning_feedback"
      [] OTHER -> "smart_home"

(* A text, as the parser sees it:                                           *)
(*   rules     the rules whose pattern.search(text) succeeds                *)
(*   num       the digits captured by group(1) of a duration rule, or NoNum *)
(*             when the optional group did not take part in the match       *)
(*   hour_word whether text.lower() contains one of 'chas', 'hour', 'hr'    *)
(*   unit      the unit word that follows the digits in REMINDER_WITH_TEXT  *)
(*   arg       the free text captured by the rule (stripped); NoTitle when  *)
(*             the optional city of WEATHER_CURRENT is missing              *)
(*   fc_city   whether group(1) of WEATHER_FORECAST (the city of the        *)
(*             Russian "prognoz pogody v ..." alternative) captured text    *)
NoNum == -1

Amounts == 0..MaxAmount

TextFeatures(ruleSets) ==
    { [rules |-> rs, num |-> n, hour_word |-> hw, unit |-> un, arg |-> a,
       fc_city |-> fc] :
        rs \in ruleSets, n \in Amounts \cup {NoNum}, hw \in BOOLEAN,
        un \in {"minutes", "hours"}, a \in Titles \cup {NoTitle},
        fc \in BOOLEAN }

\* Rules whose pattern captures free text
CapturingRules ==
    {REMINDER_WITH_TEXT, WEATHER_CURRENT, WEATHER_FORECAST, NOTE_ADD,
     NOTE_SEARCH, TASK_ADD_URGENT, TASK_ADD, TASK_DONE, MOOD_LOG, HABIT_ADD,
     HABIT_DONE, LEARNING_FEEDBACK, TURN_ON_PATTERN, TURN_OFF_PATTERN,
     DEVICE_STATUS_PATTERN}

(* What the regular expressions themselves force on the features: a duration *)
(* rule other than pomodoro/break always captures digits; an hour unit is an *)
(* hour word of the text; group(1) of WEATHER_FORECAST is set only when the  *)
(* rule matched; only the city of WEATHER_CURRENT may be missing (NoTitle    *)
(* stands for None).                                                         *)
WellFormedText(t) ==
    /\ (t.rules \cap {REMINDER_WITH_TEXT, MINUTES_PATTERN, HOURS_PATTERN,
                      TIMER_PATTERN} # {}) => t.num # NoNum
    /\ (HOURS_PATTERN \in t.rules) => t.hour_word
    /\ (REMINDER_WITH_TEXT \in t.rules /\ t.unit = "hours") => t.hour_word
    /\ t.fc_city => WEATHER_FORECAST \in t.rules
    /\ (t.arg = NoTitle) => t.rules \cap CapturingRules = {WEATHER_CURRENT}

Matches(text, rule) == rule \in text.rules

\* CommandResult.__init__
CommandResult(is_command, command_type, params, response, execute) ==
    [is_command |-> is_command, command_type |-> command_type,
     params |-> params, response |-> response, execute |-> execute]

NoParams == << >>

\* CommandResult(is_command=False): the constructor's defaults
NotACommand == CommandResult(FALSE, None, NoParams, NoneMsg, TRUE)

\* An exception: its class and str(e)
Exc(type, msg) == [type |-> type, msg |-> msg]

NoExc == Exc(None, "")

\* parse returned result / parse raised exception exc
Returned(result) == [raised |-> FALSE, exc |-> NoExc, result |-> result]
Raised(exc) == [raised |-> TRUE, exc |-> exc, result |-> NotACommand]

\* "chas" + ("a" if 2 <= amount <= 4 else "ov" if amount >= 5 else "")
HourForm(amount) ==
    IF 2 <= amount /\ amount <= 4 THEN "chasa"
    ELSE IF amount >= 5 THEN "chasov" ELSE "chas"

\* Scheduling params whose minutes field holds the due time
ReminderParamsDue(user_id, message, minutes, t) ==
    [user_id |-> user_id, message |-> message, minutes |-> t + minutes,
     run_at |-> t + minutes]

\* The params of the four scheduling intents
ReminderParams(user_id, message, minutes, t) ==
    [user_id |-> user_id, message |-> message, minutes |-> minutes,
     run_at |-> t + minutes]

\* Defaults and factors of the parser
DefaultPomodoroMinutes == 25
DefaultBreakMinutes == 5
MinutesPerHour == 60
DefaultForecastDays == 3

\* int(match.group(1)) if match.group(1) else default
OptionalMinutes(text, default) == IF text.num # NoNum THEN text.num ELSE default

\* Rule 3: REMINDER_WITH_TEXT.  The unit is decided by looking for an hour
\* word anywhere in the lower-cased text.
ParseReminderWithText(text, user_id, t) ==
    LET amount == text.num
        reminder_text == text.arg
        minutes == IF text.hour_word THEN amount * MinutesPerHour ELSE amount
        time_str == IF text.hour_word THEN HourForm(amount) ELSE "minut"
    IN  CommandResult(TRUE, "reminder",
            ReminderParams(user_id, Msg("text", 0, reminder_text, ""), minutes, t),
            Msg("Horosho, napomnu tebe cherez", amount, reminder_text, time_str),
            FALSE)

\* Rule 10: WEATHER_FORECAST.  The pattern has three groups; the code reads
\* group(1) or group(4), so it raises IndexError unless group(1) is set.
ParseWeatherForecast(text, user_id, t) ==
    IF text.fc_city
    THEN Returned(CommandResult(TRUE, "weather",
            [city |-> text.arg, forecast |-> TRUE, days |-> DefaultForecastDays],
            NoneMsg, FALSE))
    ELSE Raised(Exc("IndexError", "no such group"))

\* A command that carries the user id and one captured text under key
SimpleParams(user_id) == [user_id |-> user_id]

\* CommandParser.parse(text, user_id), evaluated at wall-clock time t
Parse(text, user_id, t) ==
    IF Matches(text, TIME_QUERY) THEN
        Returned(CommandResult(TRUE, "time", NoParams,
                               Msg("Seichas", t, NoTitle, ""), FALSE))
    ELSE IF Matches(text, DATE_QUERY) THEN
        Returned(CommandResult(TRUE, "date", NoParams,
                               Msg("Segodnya", t, NoTitle, ""), FALSE))
    ELSE IF Matches(text, REMINDER_WITH_TEXT) THEN
        Returned(ParseReminderWithText(text, user_id, t))
    ELSE IF Matches(text, MINUTES_PATTERN) THEN
        Returned(CommandResult(TRUE, "reminder",
            ReminderParams(user_id, Msg("Vremya prishlo!", 0, NoTitle, ""),
                           text.num, t),
            Msg("Okey, napomnu cherez", text.num, NoTitle, "minut"), FALSE))
    ELSE IF Matches(text, HOURS_PATTERN) THEN
        Returned(CommandResult(TRUE, "reminder",
            ReminderParams(user_id, Msg("Vremya prishlo!", 0, NoTitle, ""),
                           text.num * MinutesPerHour, t),
            Msg("Okey, napomnu cherez", text.num, NoTitle, HourForm(text.num)),
            FALSE))
    ELSE IF Matches(text, TIMER_PATTERN) THEN
        Returned(CommandResult(TRUE, "timer",
            ReminderParams(user_id, Msg("Taimer zavershen", text.num, NoTitle, ""),
                           text.num, t),
            Msg("Taimer zapushen", text.num, NoTitle, ""), FALSE))
    ELSE IF Matches(text, POMODORO_PATTERN) THEN
        LET minutes == OptionalMinutes(text, DefaultPomodoroMinutes)
        IN  Returned(CommandResult(TRUE, "pomodoro",
                ReminderParams(user_id, Msg("Pomidor zavershen", 0, NoTitle, ""),
                               minutes, t),
                Msg("Pomidor zapushen", minutes, NoTitle, ""), FALSE))
    ELSE IF Matches(text, POMODORO_BREAK_PATTERN) THEN
        LET minutes == OptionalMinutes(text, DefaultBreakMinutes)
        IN  Returned(CommandResult(TRUE, "break",
                ReminderParams(user_id, Msg("Pereryv okonchen", 0, NoTitle, ""),
                               minutes, t),
                Msg("Otdyhai", minutes, NoTitle, ""), FALSE))
    ELSE IF Matches(text, WEATHER_CURRENT) THEN
        Returned(CommandResult(TRUE, "weather",
            [city |-> text.arg, forecast |-> FALSE], NoneMsg, FALSE))
    ELSE IF Matches(text, WEATHER_FORECAST) THEN
        ParseWeatherForecast(text, user_id, t)
    ELSE IF Matches(text, NOTE_ADD) THEN
        Returned(CommandResult(TRUE, "note_add",
            [user_id |-> user_id, content |-> text.arg], NoneMsg, FALSE))
    ELSE IF Matches(text, NOTE_LIST) THEN
        Returned(CommandResult(TRUE, "note_list", SimpleParams(user_id),
                               NoneMsg, FALSE))
    ELSE IF Matches(text, NOTE_SEARCH) THEN
        Returned(CommandResult(TRUE, "note_search",
            [user_id |-> user_id, query |-> text.arg], NoneMsg, FALSE))
    ELSE IF Matches(text, TASK_ADD_URGENT) THEN
        Returned(CommandResult(TRUE, "task_add",
            [user_id |-> user_id, title |-> text.arg, priority |-> "urgent"],
            NoneMsg, FALSE))
    ELSE IF Matches(text, TASK_ADD) THEN
        Returned(CommandResult(TRUE, "task_add",
            [user_id |-> user_id, title |-> text.arg, priority |-> "normal"],
            NoneMsg, FALSE))
    ELSE IF Matches(text, TASK_LIST) THEN
        Returned(CommandResult(TRUE, "task_list", SimpleParams(user_id),
                               NoneMsg, FALSE))
    ELSE IF Matches(text, TASK_DONE) THEN
        Returned(CommandResult(TRUE, "task_done",
            [user_id |-> user_id, title |-> text.arg], NoneMsg, FALSE))
    ELSE IF Matches(text, MOOD_STATS) THEN
        Returned(CommandResult(TRUE, "mood_stats", SimpleParams(user_id),
                               NoneMsg, FALSE))
    ELSE IF Matches(text, MOOD_LOG) THEN
        Returned(CommandResult(TRUE, "mood_log",
            [user_id |-> user_id, text |-> text.arg], NoneMsg, FALSE))
    ELSE IF Matches(text, CALENDAR_TODAY) THEN
        Returned(CommandResult(TRUE, "calendar_today", SimpleParams(user_id),
                               NoneMsg, FALSE))
    ELSE IF Matches(text, CALENDAR_UPCOMING) THEN
        Returned(CommandResult(TRUE, "calendar_upcoming", SimpleParams(user_id),
                               NoneMsg, FALSE))
    ELSE IF Matches(text, BRIEFING_PATTERN) THEN
        Returned(CommandResult(TRUE, "briefing", SimpleParams(user_id),
                               NoneMsg, FALSE))
    ELSE IF Matches(text, HABIT_STATUS) THEN
        Returned(CommandResult(TRUE, "habit_status", SimpleParams(user_id),
                               NoneMsg, FALSE))
    ELSE IF Matches(text, HABIT_ADD) THEN
        Returned(CommandResult(TRUE, "habit_add",
            [user_id |-> user_id, name |-> text.arg], NoneMsg, FALSE))
    ELSE IF Matches(text, HABIT_LIST) THEN
        Returned(CommandResult(TRUE, "habit_list", SimpleParams(user_id),
                               NoneMsg, FALSE))
    ELSE IF Matches(text, HABIT_DONE) THEN
        Returned(CommandResult(TRUE, "habit_done",
            [user_id |-> user_id, name |-> text.arg], NoneMsg, FALSE))
    ELSE IF Matches(text, LEARNING_STATUS) THEN
        Returned(CommandResult(TRUE, "learning_status", SimpleParams(user_id),
                               NoneMsg, FALSE))
    ELSE IF Matches(text, LEARNING_FEEDBACK) THEN
        Returned(CommandResult(TRUE, "learning_feedback",
            [user_id |-> user_id, feedback |-> text.arg], NoneMsg, FALSE))
    ELSE IF Matches(text, TURN_ON_PATTERN) THEN
        Returned(CommandResult(TRUE, "smart_home",
            [action |-> "turn_on", device |-> text.arg, user_id |-> user_id],
            NoneMsg, FALSE))
    ELSE IF Matches(text, TURN_OFF_PATTERN) THEN
        Returned(CommandResult(TRUE, "smart_home",
            [action |-> "turn_off", device |-> text.arg, user_id |-> user_id],
            NoneMsg, FALSE))
    ELSE IF Matches(text, DEVICE_STATUS_PATTERN) THEN
        Returned(CommandResult(TRUE, "smart_home",
            [action |-> "get_state", device |-> text.arg, user_id |-> user_id],
            NoneMsg, FALSE))
    ELSE Returned(NotACommand)

-----------------------------------------------------------------------------
(* Collaborators: scheduler, stores, integrations *)

StoreUsers == Users \cup {"default"}

\* The state the executor's collaborators hold
Stores ==
    [jobs |-> jobs, notes |-> notes, tasks |-> tasks, habits |-> habits,
     habit_logs |-> habit_logs, moods |-> moods, feedbacks |-> feedbacks]

\* A collaborator call, as logged in trace
Op(name, user_id) == [op |-> name, user_id |-> user_id]

\* execute_command returned (success, message) / let exception exc escape
Ret(success, message) ==
    [raised |-> FALSE, exc |-> NoExc, success |-> success, message |-> message]
Throw(exc) ==
    [raised |-> TRUE, exc |-> exc, success |-> FALSE, message |-> NoneMsg]

\* Outcome of a piece of the executor: what it returns or raises, the
\* collaborator calls it made, the collaborators' state afterwards, the
\* exception that was raised inside it (kept when a handler converts it) and
\* whether a collaborator answered with a result that has success=false
Eff(r, ops, st) ==
    [ret |-> r, ops |-> ops, st |-> st,
     thrown |-> IF r.raised THEN r.exc ELSE NoExc, failed |-> FALSE]

\* The same outcome, reached after a collaborator reported success=false
SoftFailed(eff) == [eff EXCEPT !.failed = TRUE]

(* How the outside world answers the calls of one execute_command:          *)
(*   out   first collaborator call: "ok", "fail" (a result with             *)
(*         success=false), "raise" (an Exception) or "raise_runtime" (a     *)
(*         RuntimeError)                                                    *)
(*   out2  second call of the Home Assistant path: "ok", "fail", "raise",   *)
(*         or "fail_silent" (success=false with message "", the str() of    *)
(*         an exception that has no text)                                   *)
Environments ==
    [out : {"ok", "fail", "raise", "raise_runtime"},
     out2 : {"ok", "fail", "fail_silent", "raise"}]

EnvRaises(out) == out \in {"raise", "raise_runtime"}

\* The exception a failing collaborator raises
EnvExc(out) ==
    IF out = "raise_runtime" THEN Exc("RuntimeError", "boom")
    ELSE Exc("Exception", "boom")

\* params.get(key, default)
Get(params, key, default) ==
    IF key \in DOMAIN params THEN params[key] ELSE default

\* The user id of the constructor's default, whatever params holds
ParamUserDefault(params) == "default"

\* params.get("user_id", "default")
ParamUser(params) == Get(params, "user_id", "default")

\* ProactiveScheduler.add_reminder: the job id is built from the user id and
\* run_at; the job store refuses an id it already holds (ConflictingIdError).
ReminderId(user_id, run_at) == << user_id, "reminder", run_at >>

SchedulerAddReminder(js, user_id, message, run_at) ==
    LET reminder_id == ReminderId(user_id, run_at)
    IN  IF \E i \in 1..Len(js) : js[i].id = reminder_id
        THEN [raised |-> TRUE, jobs |-> js]
        ELSE [raised |-> FALSE,
              jobs |-> Append(js, [id |-> reminder_id, user_id |-> user_id,
                                   message |-> message, run_at |-> run_at])]

\* add_note with an id made of the timestamp alone
AddNoteTimestampId(ns, user_id, content, t) ==
    Append(ns, [id |-> << "note", t, 0 >>, content |-> content,
                created_at |-> t, user_id |-> user_id])

\* NotesManager.add_note
AddNote(ns, user_id, content, t) ==
    Append(ns, [id |-> << "note", t, Len(ns) >>, content |-> content,
                created_at |-> t, user_id |-> user_id])

\* NotesManager.get_notes(user_id): the newest notes, at most limit=10
NotesListLimit == 10

GetNotes(ns) ==
    IF Len(ns) > NotesListLimit
    THEN SubSeq(ns, Len(ns) - NotesListLimit + 1, Len(ns)) ELSE ns

\* NotesManager.search_notes
SearchNotes(ns, query) ==
    SelectSeq(ns, LAMBDA n : Contains(Lower(query), Lower(n.content)))

\* NotesManager.add_task
AddTask(ts, user_id, title, priority, t) ==
    Append(ts, [id |-> << "task", t, Len(ts) >>, title |-> title,
                priority |-> priority, status |-> "pending",
                created_at |-> t, user_id |-> user_id])

\* NotesManager.get_tasks(user_id): the tasks that are not done
GetTasks(ts) == SelectSeq(ts, LAMBDA x : x.status # "done")

\* The task complete_task(task_title=...) picks: the first, in file order,
\* whose title contains the given title; 0 when there is none.
TaskMatches(task, task_title) ==
    task_title # NoTitle /\ Contains(Lower(task_title), Lower(task.title))

FirstIndex(S) == IF S = {} THEN 0 ELSE CHOOSE i \in S : \A j \in S : i <= j

FindTask(ts, task_title) ==
    FirstIndex({i \in 1..Len(ts) : TaskMatches(ts[i], task_title)})

\* NotesManager.complete_task
CompleteTask(ts, task_title) ==
    LET i == FindTask(ts, task_title)
    IN  IF i = 0 THEN ts ELSE [ts EXCEPT ![i].status = "done"]

\* HabitTracker.add_habit
AddHabit(hs, user_id, name, t) ==
    Append(hs, [id |-> << "habit", t, Len(hs) >>, name |-> name,
                created_at |-> t, user_id |-> user_id, active |-> TRUE])

\* HabitTracker.get_habits(user_id): the active habits
GetHabits(hs) == SelectSeq(hs, LAMBDA h : h.active)

\* datetime.now().strftime('%Y-%m-%d')
MinutesPerDay == 1440

Today(t) == t \div MinutesPerDay

\* The habit log_habit(habit_name=...) picks: the first whose name contains
\* the given name, active or not; 0 when there is none.
HabitMatches(habit, habit_name) ==
    habit_name # NoTitle /\ Contains(Lower(habit_name), Lower(habit.name))

FindHabit(hs, habit_name) ==
    FirstIndex({i \in 1..Len(hs) : HabitMatches(hs[i], habit_name)})

\* log_habit that looks for today's entry among the entries of earlier days
LogHabitStaleDate(ls, habit_id, t) ==
    LET i == FirstIndex({k \in 1..Len(ls) :
                            ls[k].habit_id = habit_id /\ ls[k].date < Today(t)})
    IN  IF i # 0
        THEN [ls EXCEPT ![i].completed = TRUE]
        ELSE Append(ls, [habit_id |-> habit_id, date |-> Today(t),
                         completed |-> TRUE])

\* log_habit that appends an entry whether or not today has one
LogHabitAppending(ls, habit_id, t) ==
    Append(ls, [habit_id |-> habit_id, date |-> Today(t), completed |-> TRUE])

\* HabitTracker.log_habit, once the habit is found: update today's entry of
\* the habit, or append one
LogHabit(ls, habit_id, t) ==
    LET i == FirstIndex({k \in 1..Len(ls) :
                            ls[k].habit_id = habit_id /\ ls[k].date = Today(t)})
    IN  IF i # 0
        THEN [ls EXCEPT ![i].completed = TRUE]
        ELSE Append(ls, [habit_id |-> habit_id, date |-> Today(t),
                         completed |-> TRUE])

\* sorted(dates, reverse=True)
RemoveAt(sq, i) == SubSeq(sq, 1, i - 1) \o SubSeq(sq, i + 1, Len(sq))

RECURSIVE SortDesc(_)
SortDesc(sq) ==
    IF sq = << >> THEN << >>
    ELSE LET i == CHOOSE k \in 1..Len(sq) : \A j \in 1..Len(sq) : sq[j] <= sq[k]
         IN  << sq[i] >> \o SortDesc(RemoveAt(sq, i))

\* The loop of HabitTracker.get_streak over the dates, newest first
RECURSIVE StreakLoop(_, _, _, _)
StreakLoop(dates, i, check_date, streak) ==
    IF i > Len(dates) THEN streak
    ELSE IF dates[i] = check_date
         THEN StreakLoop(dates, i + 1, check_date - 1, streak + 1)
    ELSE IF dates[i] = check_date - 1
         THEN StreakLoop(dates, i + 1, dates[i] - 1, streak + 1)
    ELSE streak

\* HabitTracker.get_streak
GetStreak(ls, habit_id, t) ==
    LET done_logs == SelectSeq(ls, LAMBDA l : l.habit_id = habit_id /\ l.completed)
        dates == SortDesc([k \in 1..Len(done_logs) |-> done_logs[k].date])
    IN  StreakLoop(dates, 1, Today(t), 0)

\* MoodTracker.parse_mood: a keyword of MOOD_SCORES found in the lower-cased
\* text ("b" stands for the keywords), else nothing
ParseMood(text) ==
    IF Contains(<< "b" >>, Lower(text))
    THEN [found |-> TRUE, mood |-> "good", score |-> 7]
    ELSE [found |-> FALSE, mood |-> None, score |-> 0]

MaxMoodEntries == 1000

\* moods[-1000:]
LastN(sq, n) ==
    IF Len(sq) > n THEN SubSeq(sq, Len(sq) - n + 1, Len(sq)) ELSE sq

\* MoodTracker.log_mood
LogMood(ms, user_id, mood, score, note, t) ==
    LastN(Append(ms, [timestamp |-> t, mood |-> mood, score |-> score,
                      note |-> note, user_id |-> user_id]),
          MaxMoodEntries)

-----------------------------------------------------------------------------
(* Command Executor *)

NoEntity == << >>

\* One pass of the loop body of find_entity_by_name: does this entity match?
EntityMatches(entity, name_lower) ==
    LET entity_name == Lower(entity.name)
    IN  \/ entity_name = name_lower
        \/ Contains(name_lower, entity_name) \/ Contains(entity_name, name_lower)
        \/ Contains(name_lower, Lower(entity.entity_id))

\* The loop of find_entity_by_name from position i on: the first entity, in
\* iteration order, that matches in any of the three ways is returned
RECURSIVE FindEntityFrom(_, _, _)
FindEntityFrom(devices, i, name_lower) ==
    IF i > Len(devices) THEN NoEntity
    ELSE IF EntityMatches(devices[i], name_lower) THEN devices[i].entity_id
    ELSE FindEntityFrom(devices, i + 1, name_lower)

\* find_entity_by_name(states_result, name); devices lists the entities of
\* states_result["devices"] in the iteration order of the dict
FindEntityByName(states_result, name) ==
    IF ~states_result.success THEN NoEntity
    ELSE FindEntityFrom(states_result.devices, 1, Lower(name))

\* The entities Home Assistant lists in the chat model
HADevices == << [name |-> << "b" >>, entity_id |-> << "b" >>] >>

\* A branch without its "except Exception" handler
CatchNothing(prefix, eff) == eff

ErrorMsg(prefix, exc) == Msg(prefix, 0, NoTitle, exc.msg)

\* except Exception as e: return False, prefix + str(e)
Catch(prefix, eff) ==
    IF eff.ret.raised
    THEN [eff EXCEPT !.ret = Ret(FALSE, ErrorMsg(prefix, eff.ret.exc))]
    ELSE eff

(* The "Run async" block of the weather, calendar and briefing branches,    *)
(* called from the running event loop of chat_message: the coroutine runs   *)
(* in a worker thread; a RuntimeError it raises is caught by                *)
(* "except RuntimeError", and the asyncio.run() of that handler itself      *)
(* raises RuntimeError because the loop is running.                         *)
RunAsync(eff) ==
    IF eff.ret.raised /\ eff.ret.exc.type = "RuntimeError"
    THEN [eff EXCEPT !.ret = Throw(Exc("RuntimeError",
              "asyncio.run() cannot be called from a running event loop"))]
    ELSE eff

\* The scheduling branch with run_at computed when the command is executed
\* (execution time + minutes) instead of taken from the params
ExecuteReminderRecomputed(result, st, env) ==
    IF ~({"user_id", "message", "minutes"} \subseteq DOMAIN result.params)
       \/ EnvRaises(env.out)
    THEN Eff(Ret(FALSE, Msg("Oshibka: ", 0, NoTitle, "boom")), << >>, st)
    ELSE LET added == SchedulerAddReminder(st.jobs, result.params.user_id,
                          result.params.message, now + result.params.minutes)
         IN  IF added.raised
             THEN Eff(Ret(FALSE, Msg("Oshibka: ", 0, NoTitle, "conflict")),
                      << Op("scheduler.add_reminder", result.params.user_id) >>,
                      st)
             ELSE Eff(Ret(TRUE, result.response),
                      << Op("scheduler.add_reminder", result.params.user_id) >>,
                      [st EXCEPT !.jobs = added.jobs])

\* execute_command, lines 661-677: reminder, timer, pomodoro, break
ExecuteReminder(result, st, env) ==
    Catch("Oshibka: ",
        IF ~({"user_id", "message", "run_at"} \subseteq DOMAIN result.params)
        THEN Eff(Throw(Exc("KeyError", "key")), << >>, st)
        ELSE IF EnvRaises(env.out)
        THEN Eff(Throw(EnvExc(env.out)),
                 << Op("scheduler.add_reminder", result.params.user_id) >>, st)
        ELSE LET added == SchedulerAddReminder(st.jobs, result.params.user_id,
                              result.params.message, result.params.run_at)
                 ops == << Op("scheduler.add_reminder", result.params.user_id) >>
             IN  IF added.raised
                 THEN Eff(Throw(Exc("ConflictingIdError", "conflict")), ops, st)
                 ELSE Eff(Ret(TRUE, result.response), ops,
                          [st EXCEPT !.jobs = added.jobs]))

\* do_action of execute_smart_home_command: the Home Assistant path
HomeAssistantAction(action, device, env) ==
    IF action \notin {"turn_on", "turn_off", "get_state"}
    THEN [raised |-> FALSE, success |-> FALSE, failed |-> FALSE,
          message |-> Msg("Unknown action", 0, NoTitle, ""), ops |-> << >>]
    ELSE IF EnvRaises(env.out)
    THEN [raised |-> TRUE, success |-> FALSE, failed |-> FALSE,
          message |-> NoneMsg, ops |-> << Op("ha.list_devices", None) >>]
    ELSE LET states == [success |-> env.out = "ok",
                        devices |-> IF env.out = "ok" THEN HADevices ELSE << >>]
             entity_id == FindEntityByName(states, device)
             listed == << Op("ha.list_devices", None) >>
         IN  IF entity_id = NoEntity
             THEN [raised |-> FALSE, success |-> FALSE,
                   failed |-> env.out = "fail",
                   message |-> Msg("Ustroistvo ne naideno", 0, device, ""),
                   ops |-> listed]
             ELSE [raised |-> env.out2 = "raise",
                   success |-> env.out2 = "ok",
                   failed |-> env.out2 \in {"fail", "fail_silent"},
                   message |-> IF env.out2 = "ok" THEN NoneMsg
                               ELSE IF env.out2 = "fail_silent"
                               THEN Msg("", 0, NoTitle, "")
                               ELSE Msg("ha error", 0, NoTitle, ""),
                   ops |-> Append(listed, Op("ha." \o action, None))]

\* execute_smart_home_command, the MQTT path: do_mqtt_action and its answer,
\* after the collaborator calls before
MqttAction(action, device, st, env, before) ==
    LET ops == Append(before, Op("mqtt.execute", None))
    IN  IF EnvRaises(env.out) THEN Eff(Throw(EnvExc(env.out)), ops, st)
        ELSE IF env.out = "ok"
        THEN Eff(Ret(TRUE, Msg("mqtt " \o action, 0, device, "")), ops, st)
        ELSE SoftFailed(Eff(Ret(FALSE, Msg("mqtt error", 0, NoTitle, "")),
                            ops, st))

\* execute_smart_home_command going on to MQTT when Home Assistant did not
\* carry the action out
ExecuteSmartHomeFallThrough(result, st, env, conf) ==
    LET action == Get(result.params, "action", None)
        device == Get(result.params, "device", NoTitle)
        r == HomeAssistantAction(action, device, env)
    IN  Catch("Oshibka: ",
        IF conf.home_assistant /\ r.raised
        THEN Eff(Throw(Exc("Exception", "boom")), r.ops, st)
        ELSE IF conf.home_assistant /\ r.success
        THEN Eff(Ret(TRUE, Msg("smart_home " \o action, 0, device, "")),
                 r.ops, st)
        ELSE IF conf.mqtt
        THEN MqttAction(action, device, st, env,
                        IF conf.home_assistant THEN r.ops ELSE << >>)
        ELSE IF conf.home_assistant THEN Eff(Ret(FALSE, r.message), r.ops, st)
        ELSE Eff(Ret(FALSE, Msg("Net podklyuchennyh integratsiy umnogo doma.",
                                0, NoTitle, "")), << >>, st))

\* execute_smart_home_command
ExecuteSmartHomeCommand(result, st, env, conf) ==
    LET action == Get(result.params, "action", None)
        device == Get(result.params, "device", NoTitle)
    IN  Catch("Oshibka: ",
        IF conf.home_assistant THEN
            LET r == HomeAssistantAction(action, device, env)
            IN  IF r.raised THEN Eff(Throw(Exc("Exception", "boom")), r.ops, st)
                ELSE IF r.success
                THEN Eff(Ret(TRUE, Msg("smart_home " \o action, 0, device, "")),
                         r.ops, st)
                ELSE IF r.failed
                THEN SoftFailed(Eff(Ret(FALSE, r.message), r.ops, st))
                ELSE Eff(Ret(FALSE, r.message), r.ops, st)
        ELSE IF conf.mqtt THEN MqttAction(action, device, st, env, << >>)
        ELSE Eff(Ret(FALSE, Msg("Net podklyuchennyh integratsiy umnogo doma.",
                                0, NoTitle, "")), << >>, st))

\* The answer of one awaited integration call that can succeed, report
\* failure in its result, or raise
Awaited(op, env, st, okMsg, failMsg) ==
    IF EnvRaises(env.out) THEN Eff(Throw(EnvExc(env.out)), << Op(op, None) >>, st)
    ELSE IF env.out = "ok" THEN Eff(Ret(TRUE, okMsg), << Op(op, None) >>, st)
    ELSE SoftFailed(Eff(Ret(TRUE, failMsg), << Op(op, None) >>, st))

\* The weather branch without the is_configured check
ExecuteWeatherUnchecked(result, st, env, conf) ==
    IF EnvRaises(env.out)
    THEN Eff(Ret(FALSE, Msg("Oshibka polucheniya pogody: ", 0, NoTitle, "boom")),
             << Op("weather.get_current", None) >>, st)
    ELSE Eff(Ret(TRUE, Msg("V gorode ... seichas", 0, NoTitle, "")),
             << Op("weather.get_current", None) >>, st)

\* execute_weather_command
ExecuteWeatherCommand(result, st, env, conf) ==
    Catch("Oshibka polucheniya pogody: ",
        IF ~conf.weather
        THEN Eff(Ret(FALSE, Msg("Pogoda ne nastroena.", 0, NoTitle, "")), << >>, st)
        ELSE IF Get(result.params, "forecast", FALSE)
        THEN RunAsync(Awaited("weather.get_forecast", env, st,
                 Msg("Prognoz pogody dlya", 0, NoTitle, ""),
                 Msg("Ne udalos poluchit prognoz: ", 0, NoTitle, "error")))
        ELSE RunAsync(Awaited("weather.get_current", env, st,
                 Msg("V gorode ... seichas", 0, NoTitle, ""),
                 Msg("Ne udalos poluchit pogodu: ", 0, NoTitle, "error"))))

\* execute_note_command
ExecuteNoteCommand(result, st, env, t) ==
    LET user_id == ParamUser(result.params)
        type == result.command_type
    IN  Catch("Oshibka: ",
        IF type \notin {"note_add", "note_list", "note_search"}
        THEN Eff(Ret(FALSE, Msg("Neizvestnaya komanda zametok", 0, NoTitle, "")),
                 << >>, st)
        ELSE IF EnvRaises(env.out)
        THEN Eff(Throw(EnvExc(env.out)), << Op("notes." \o type, user_id) >>, st)
        ELSE IF type = "note_add" THEN
            Eff(Ret(TRUE, Msg("Zapisala", 0, Get(result.params, "content", NoTitle), "")),
                << Op("notes.add_note", user_id) >>,
                [st EXCEPT !.notes[user_id] =
                    AddNote(@, user_id, Get(result.params, "content", NoTitle), t)])
        ELSE IF type = "note_list" THEN
            Eff(Ret(TRUE, Msg("U tebya zametok",
                              Len(GetNotes(st.notes[user_id])), NoTitle, "")),
                << Op("notes.get_notes", user_id) >>, st)
        ELSE
            LET found == SearchNotes(st.notes[user_id], Get(result.params, "query", NoTitle))
                ops == << Op("notes.search_notes", user_id) >>
            IN  IF found # << >>
                THEN Eff(Ret(TRUE, Msg("Naideno zametok", Len(found), NoTitle, "")),
                         ops, st)
                ELSE Eff(Ret(TRUE, Msg("Zametok ne naideno", 0,
                                       Get(result.params, "query", NoTitle), "")), ops, st))

\* execute_task_command
ExecuteTaskCommand(result, st, env, t) ==
    LET user_id == ParamUser(result.params)
        type == result.command_type
    IN  Catch("Oshibka: ",
        IF type \notin {"task_add", "task_list", "task_done"}
        THEN Eff(Ret(FALSE, Msg("Neizvestnaya komanda zadach", 0, NoTitle, "")),
                 << >>, st)
        ELSE IF EnvRaises(env.out)
        THEN Eff(Throw(EnvExc(env.out)), << Op("notes." \o type, user_id) >>, st)
        ELSE IF type = "task_add" THEN
            Eff(Ret(TRUE, Msg("Dobavila zadachu", 0, Get(result.params, "title", NoTitle),
                              Get(result.params, "priority", "normal"))),
                << Op("notes.add_task", user_id) >>,
                [st EXCEPT !.tasks[user_id] =
                    AddTask(@, user_id, Get(result.params, "title", NoTitle),
                            Get(result.params, "priority", "normal"), t)])
        ELSE IF type = "task_list" THEN
            Eff(Ret(TRUE, Msg("U tebya zadach", Len(GetTasks(st.tasks[user_id])),
                              NoTitle, "")),
                << Op("notes.get_tasks", user_id) >>, st)
        ELSE
            LET i == FindTask(st.tasks[user_id], Get(result.params, "title", NoTitle))
                ops == << Op("notes.complete_task", user_id) >>
            IN  IF i # 0
                THEN Eff(Ret(TRUE, Msg("Zadacha vypolnena", 0,
                                       st.tasks[user_id][i].title, "")),
                         ops,
                         [st EXCEPT !.tasks[user_id] =
                             CompleteTask(@, Get(result.params, "title", NoTitle))])
                ELSE Eff(Ret(FALSE, Msg("Zadacha ne naidena", 0,
                                        Get(result.params, "title", NoTitle), "")), ops, st))

\* execute_mood_command
ExecuteMoodCommand(result, st, env, t) ==
    LET user_id == ParamUser(result.params)
        type == result.command_type
    IN  Catch("Oshibka: ",
        IF type \notin {"mood_log", "mood_stats"}
        THEN Eff(Ret(FALSE, Msg("Neizvestnaya komanda nastroeniya", 0, NoTitle, "")),
                 << >>, st)
        ELSE IF EnvRaises(env.out)
        THEN Eff(Throw(EnvExc(env.out)), << Op("mood." \o type, user_id) >>, st)
        ELSE IF type = "mood_log" THEN
            LET parsed == ParseMood(Get(result.params, "text", NoTitle))
            IN  IF parsed.found
                THEN Eff(Ret(TRUE, Msg("mood response", 0, NoTitle, parsed.mood)),
                         << Op("mood.log_mood", user_id) >>,
                         [st EXCEPT !.moods[user_id] =
                             LogMood(@, user_id, parsed.mood, parsed.score,
                                     Get(result.params, "text", NoTitle), t)])
                ELSE Eff(Ret(TRUE, Msg("Ne sovsem ponyala.", 0, NoTitle, "")),
                         << Op("mood.parse_mood", user_id) >>, st)
        ELSE Eff(Ret(TRUE, Msg("mood stats", Len(st.moods[user_id]), NoTitle, "")),
                 << Op("mood.get_stats", user_id) >>, st))

\* execute_calendar_command
ExecuteCalendarCommand(result, st, env, conf) ==
    Catch("Oshibka: ",
        IF ~conf.calendar
        THEN Eff(Ret(FALSE, Msg("Kalendar ne podklyuchen.", 0, NoTitle, "")),
                 << >>, st)
        ELSE IF result.command_type = "calendar_today"
        THEN RunAsync(Awaited("calendar.get_today_events", env, st,
                 Msg("Segodnya u tebya", 0, NoTitle, ""),
                 Msg("Ne udalos poluchit raspisanie: ", 0, NoTitle, "error")))
        ELSE IF result.command_type = "calendar_upcoming"
        THEN RunAsync(Awaited("calendar.get_upcoming_events", env, st,
                 Msg("U tebya sobytiy", 0, NoTitle, ""),
                 Msg("Ne udalos poluchit sobytiya: ", 0, NoTitle, "error")))
        ELSE Eff(Ret(TRUE, Msg("Neizvestnaya komanda", 0, NoTitle, "")), << >>, st))

\* execute_briefing_command
ExecuteBriefingCommand(result, st, env) ==
    Catch("Oshibka: ",
        RunAsync(Awaited("briefing.generate", env, st,
                 Msg("briefing", 0, NoTitle, ""),
                 Msg("briefing", 0, NoTitle, "errors"))))

\* execute_habit_command
ExecuteHabitCommand(result, st, env, t) ==
    LET user_id == ParamUser(result.params)
        type == result.command_type
    IN  Catch("Oshibka: ",
        IF type \notin {"habit_add", "habit_list", "habit_done", "habit_status"}
        THEN Eff(Ret(FALSE, Msg("Neizvestnaya komanda privychek", 0, NoTitle, "")),
                 << >>, st)
        ELSE IF EnvRaises(env.out)
        THEN Eff(Throw(EnvExc(env.out)), << Op("habits." \o type, user_id) >>, st)
        ELSE IF type = "habit_add" THEN
            Eff(Ret(TRUE, Msg("Dobavila privychku", 0, Get(result.params, "name", NoTitle), "")),
                << Op("habits.add_habit", user_id) >>,
                [st EXCEPT !.habits[user_id] =
                    AddHabit(@, user_id, Get(result.params, "name", NoTitle), t)])
        ELSE IF type = "habit_list" THEN
            Eff(Ret(TRUE, Msg("Tvoi privychki", Len(GetHabits(st.habits[user_id])),
                              NoTitle, "")),
                << Op("habits.get_habits", user_id) >>, st)
        ELSE IF type = "habit_done" THEN
            LET i == FindHabit(st.habits[user_id], Get(result.params, "name", NoTitle))
                ops == << Op("habits.log_habit", user_id) >>
            IN  IF i = 0
                THEN Eff(Ret(FALSE, Msg("Privychka ne naidena", 0,
                                        Get(result.params, "name", NoTitle), "")), ops, st)
                ELSE LET habit == st.habits[user_id][i]
                         logs == LogHabit(st.habit_logs[user_id], habit.id, t)
                         streak == IF habit.active
                                   THEN GetStreak(logs, habit.id, t) ELSE 0
                     IN  Eff(Ret(TRUE,
                                 IF streak > 1
                                 THEN Msg("Otlichno! dney podryad", streak, NoTitle, "")
                                 ELSE Msg("Molodets! Privychka otmechena.", 0,
                                          NoTitle, "")),
                             ops, [st EXCEPT !.habit_logs[user_id] = logs])
        ELSE Eff(Ret(TRUE, Msg("habit status", 0, NoTitle, "")),
                 << Op("habits.get_today_status", user_id) >>, st))

\* execute_learning_command
ExecuteLearningCommand(result, st, env) ==
    LET user_id == ParamUser(result.params)
        type == result.command_type
    IN  Catch("Oshibka: ",
        IF type \notin {"learning_status", "learning_feedback"}
        THEN Eff(Ret(FALSE, Msg("Neizvestnaya komanda", 0, NoTitle, "")), << >>, st)
        ELSE IF EnvRaises(env.out)
        THEN Eff(Throw(EnvExc(env.out)), << Op("learning." \o type, user_id) >>, st)
        ELSE IF type = "learning_status"
        THEN Eff(Ret(TRUE, Msg("evolution summary", 0, NoTitle, "")),
                 << Op("learning.get_all_facts", user_id) >>, st)
        ELSE Eff(Ret(TRUE, Msg("Ponyala!", 0, NoTitle, "")),
                 << Op("learning.update_style_from_feedback", user_id) >>,
                 [st EXCEPT !.feedbacks[user_id] = @ + 1]))

\* command_type.startswith(prefix), on the tags of the closed set
StartsWith(type, prefix) ==
    CASE prefix = "note_" -> type \in {"note_add", "note_list", "note_search"}
      [] prefix = "task_" -> type \in {"task_add", "task_list", "task_done"}
      [] prefix = "mood_" -> type \in {"mood_log", "mood_stats"}
      [] prefix = "calendar_" -> type \in {"calendar_today", "calendar_upcoming"}
      [] prefix = "habit_" ->
            type \in {"habit_add", "habit_list", "habit_done", "habit_status"}
      [] prefix = "learning_" -> type \in {"learning_status", "learning_feedback"}

\* execute_command below its first test: the branch chosen by command_type
DispatchCommand(result, st, env, conf, t) ==
    IF result.command_type \in {"reminder", "timer", "pomodoro", "break"}
    THEN ExecuteReminder(result, st, env)
    ELSE IF result.command_type = "smart_home"
    THEN ExecuteSmartHomeCommand(result, st, env, conf)
    ELSE IF result.command_type = "weather"
    THEN ExecuteWeatherCommand(result, st, env, conf)
    ELSE IF result.command_type = None
    THEN Eff(Throw(Exc("AttributeError", "NoneType has no startswith")), << >>, st)
    ELSE IF StartsWith(result.command_type, "note_")
    THEN ExecuteNoteCommand(result, st, env, t)
    ELSE IF StartsWith(result.command_type, "task_")
    THEN ExecuteTaskCommand(result, st, env, t)
    ELSE IF StartsWith(result.command_type, "mood_")
    THEN ExecuteMoodCommand(result, st, env, t)
    ELSE IF StartsWith(result.command_type, "calendar_")
    THEN ExecuteCalendarCommand(result, st, env, conf)
    ELSE IF result.command_type = "briefing"
    THEN ExecuteBriefingCommand(result, st, env)
    ELSE IF StartsWith(result.command_type, "habit_")
    THEN ExecuteHabitCommand(result, st, env, t)
    ELSE IF StartsWith(result.command_type, "learning_")
    THEN ExecuteLearningCommand(result, st, env)
    ELSE Eff(Ret(TRUE, result.response), << >>, st)

\* execute_command with no test of is_command
ExecuteCommandUnguarded(result, st, env, conf, t) ==
    DispatchCommand(result, st, env, conf, t)

\* execute_command(result), run at wall-clock time t with the integrations
\* configured as conf and the outside world answering as env
ExecuteCommand(result, st, env, conf, t) ==
    IF ~result.is_command THEN Eff(Ret(FALSE, NoneMsg), << >>, st)
    ELSE DispatchCommand(result, st, env, conf, t)

\* response_msg or cmd_result.response, with no fixed text at the end
FinalResponseNoDefault(response_msg, scripted) ==
    IF Truthy(response_msg) THEN response_msg ELSE scripted

\* final_response = response_msg or cmd_result.response or "Gotovo!"
FinalResponse(response_msg, scripted) ==
    IF Truthy(response_msg) THEN response_msg
    ELSE IF Truthy(scripted) THEN scripted
    ELSE Msg("Gotovo!", 0, NoTitle, "")

-----------------------------------------------------------------------------
(* Inputs of the exploration *)

DefaultArg == << "a" >>

\* The text no rule matches
NoText ==
    [rules |-> {}, num |-> NoNum, hour_word |-> FALSE, unit |-> "minutes",
     arg |-> DefaultArg, fc_city |-> FALSE]

\* Rules whose pattern captures digits / an hour word / free text
NumRules ==
    {REMINDER_WITH_TEXT, MINUTES_PATTERN, HOURS_PATTERN, TIMER_PATTERN,
     POMODORO_PATTERN, POMODORO_BREAK_PATTERN}
HourRules == {REMINDER_WITH_TEXT, HOURS_PATTERN}
ArgRules == CapturingRules

\* One representative per class of texts: a feature no matched rule reads
\* has its default value
Canonical(t) ==
    /\ (t.rules \cap NumRules = {}) => t.num = NoNum
    /\ (t.rules \cap HourRules = {}) => ~t.hour_word
    /\ (REMINDER_WITH_TEXT \notin t.rules) => t.unit = "minutes"
    /\ (t.rules \cap ArgRules = {}) => t.arg = DefaultArg

\* The sets of at most k rules
RECURSIVE RuleSetsUpTo(_)
RuleSetsUpTo(k) ==
    IF k = 0 THEN { {} }
    ELSE LET prev == RuleSetsUpTo(k - 1)
         IN  prev \cup { S \cup {r} : S \in prev, r \in Rules }

\* Texts matched by the rule sets given
TextsOf(ruleSets) ==
    { t \in TextFeatures(ruleSets) : WellFormedText(t) /\ Canonical(t) }

\* Texts on which at most k rules succeed
ParseTexts(k) == TextsOf(RuleSetsUpTo(k))

\* Command families: the requests of one behaviour are drawn from one family
Families ==
    {"schedule", "weather", "notes", "tasks", "mood", "calendar", "habits",
     "learning", "smart_home"}

FamilyRules(f) ==
    CASE f = "schedule" -> TIME_QUERY..POMODORO_BREAK_PATTERN
      [] f = "weather" -> {WEATHER_CURRENT, WEATHER_FORECAST}
      [] f = "notes" -> {NOTE_ADD, NOTE_LIST, NOTE_SEARCH}
      [] f = "tasks" -> {TASK_ADD_URGENT, TASK_ADD, TASK_LIST, TASK_DONE}
      [] f = "mood" -> {MOOD_STATS, MOOD_LOG}
      [] f = "calendar" -> {CALENDAR_TODAY, CALENDAR_UPCOMING, BRIEFING_PATTERN}
      [] f = "habits" -> {HABIT_STATUS, HABIT_ADD, HABIT_LIST, HABIT_DONE}
      [] f = "learning" -> {LEARNING_STATUS, LEARNING_FEEDBACK}
      [] f = "smart_home" ->
            {TURN_ON_PATTERN, TURN_OFF_PATTERN, DEVICE_STATUS_PATTERN}

\* Texts of a family: one rule of the family matches, or none does
ChatTexts ==
    [f \in Families |-> TextsOf({ {} } \cup { {r} : r \in FamilyRules(f) })]

\* Recognised speech of a family: the utterances about the default argument
VoiceTexts ==
    [f \in Families |-> { t \in ChatTexts[f] : t.arg = DefaultArg }]

\* Which integrations are configured (weather.is_configured), connected
\* (registry entry with is_connected) or authenticated (calendar)
Configs ==
    [weather : BOOLEAN, home_assistant : BOOLEAN, mqtt : BOOLEAN,
     calendar : BOOLEAN]

FamilyConfigs(f) ==
    { c \in Configs :
        /\ c.weather => f = "weather"
        /\ (c.home_assistant \/ c.mqtt) => f = "smart_home"
        /\ c.calendar => f = "calendar" }

NoReq == [user_id |-> "alice", text |-> NoText]
NoCmd == [out |-> Returned(NotACommand), at |-> 0]
NoRet == Ret(FALSE, NoneMsg)
EmptyStore == [u \in StoreUsers |-> << >>]

\* Store operations that can be in flight at once
MaxWorkers == 2
Workers == 1..MaxWorkers

\* A worker between two operations
Idle ==
    [pc |-> "idle", op |-> None, user_id |-> None, arg |-> NoTitle,
     loaded |-> << >>, logs |-> << >>, result |-> None]
NoWorkers == [w \in Workers |-> Idle]

\* No weather data was fetched
NoWeather ==
    [success |-> FALSE, temp |-> 0, feels_like |-> 0, wind_speed |-> 0,
     humidity |-> 0]
NoStates == [success |-> FALSE, devices |-> << >>]

-----------------------------------------------------------------------------
(* The chat handler: api/routes.py chat_message *)

MaxHistory == 20

\* MemoryManager.add_message, on the number of messages kept
AddMessage(count) ==
    IF count + 1 > MaxHistory * 2 THEN MaxHistory ELSE count + 1

\* except Exception as e: raise HTTPException(status_code=500, detail=str(e))
Http500(exc) == Msg("HTTP 500", 0, NoTitle, exc.msg)

\* raise HTTPException(status_code=400, detail="Could not recognize speech")
Http400 == Msg("HTTP 400", 0, NoTitle, "Could not recognize speech")

\* Positions between two requests
Resting == {"idle", "done", "failed", "voice_done", "voice_failed"}

\* Answers of the speech recogniser: a text, a blank text, an exception
SttOutcomes == {"ok", "blank", "raise"}

Init ==
    /\ now = 0
    /\ family \in Families
    /\ handled = 0
    /\ pc = "idle"
    /\ req = NoReq
    /\ cmd = NoCmd
    /\ ret = NoRet
    /\ reply = NoneMsg
    /\ trace = << >>
    /\ thrown = NoExc
    /\ soft_failure = FALSE
    /\ jobs = << >>
    /\ notes = EmptyStore
    /\ tasks = EmptyStore
    /\ habits = EmptyStore
    /\ habit_logs = EmptyStore
    /\ moods = EmptyStore
    /\ feedbacks = [u \in StoreUsers |-> 0]
    /\ memory = [u \in StoreUsers |-> 0]
    /\ cfg \in FamilyConfigs(family)
    /\ fe_states = NoStates
    /\ fe_name = DefaultArg
    /\ fe_result = NoEntity
    /\ workers = NoWorkers
    /\ weather = NoWeather

\* datetime.now() advances; the handler reads the clock in parse and in
\* execute_command only, so time passing elsewhere is time passing there
Tick ==
    /\ now < MaxClock
    /\ pc \in {"parse", "execute"}
    /\ now' = now + 1
    /\ UNCHANGED << family, handled, pc, req, cmd, ret, reply, trace, thrown,
                    soft_failure, jobs, notes, tasks, habits, habit_logs,
                    moods, feedbacks, memory, cfg, fe_states, fe_name,
                    fe_result, workers, weather >>

\* POST /chat/message arrives
ChatReceive(user_id, text) ==
    /\ pc \in Resting
    /\ handled < MaxRequests
    /\ handled' = handled + 1
    /\ req' = [user_id |-> user_id, text |-> text]
    /\ pc' = "parse"
    /\ cmd' = NoCmd
    /\ ret' = NoRet
    /\ reply' = NoneMsg
    /\ trace' = << >>
    /\ thrown' = NoExc
    /\ soft_failure' = FALSE
    /\ UNCHANGED << now, family, jobs, notes, tasks, habits, habit_logs, moods,
                    feedbacks, memory, cfg, fe_states, fe_name, fe_result,
                    workers, weather >>

\* routes.py 160-162: cmd_result = parser.parse(request.text, request.user_id)
\* and the choice of the path; an exception of parse ends the request with
\* HTTP 500 (routes.py 237-238)
ChatParse ==
    /\ pc = "parse"
    /\ \E out \in { Parse(req.text, req.user_id, now) } :
           /\ cmd' = [out |-> out, at |-> now]
           /\ pc' = IF out.raised THEN "failed"
                    ELSE IF out.result.is_command /\ ~out.result.execute
                    THEN "execute" ELSE "llm"
           /\ reply' = IF out.raised THEN Http500(out.exc) ELSE reply
    /\ trace' = Append(trace, Op("parser.parse", req.user_id))
    /\ UNCHANGED << now, family, handled, req, ret, thrown, soft_failure, jobs,
                    notes, tasks, habits, habit_logs, moods, feedbacks, memory,
                    cfg, fe_states, fe_name, fe_result, workers, weather >>

\* routes.py 164-167: success, response_msg = execute_command(cmd_result) and
\* final_response, with the outside world answering as env
ChatExecute(env) ==
    /\ pc = "execute"
    /\ \E eff \in { ExecuteCommand(cmd.out.result, Stores, env, cfg, now) } :
           /\ ret' = eff.ret
           /\ thrown' = eff.thrown
           /\ soft_failure' = eff.failed
           /\ trace' = Append(trace, Op("execute_command", req.user_id)) \o eff.ops
           /\ jobs' = eff.st.jobs
           /\ notes' = eff.st.notes
           /\ tasks' = eff.st.tasks
           /\ habits' = eff.st.habits
           /\ habit_logs' = eff.st.habit_logs
           /\ moods' = eff.st.moods
           /\ feedbacks' = eff.st.feedbacks
           /\ pc' = IF eff.ret.raised THEN "failed" ELSE "respond"
           /\ reply' = IF eff.ret.raised THEN Http500(eff.ret.exc)
                       ELSE FinalResponse(eff.ret.message, cmd.out.result.response)
    /\ UNCHANGED << now, family, handled, req, cmd, memory, cfg, fe_states,
                    fe_name, fe_result, workers, weather >>

\* routes.py 170-193: speech for the command response, then the two memory
\* entries, then the response; a failing synthesis ends with HTTP 500
ChatRespond(tts_ok) ==
    /\ pc = "respond"
    /\ IF tts_ok
       THEN /\ memory' = [memory EXCEPT ![req.user_id] = AddMessage(AddMessage(@))]
            /\ trace' = trace \o << Op("tts.synthesize_with_emotion", req.user_id),
                                    Op("memory.add_message", req.user_id),
                                    Op("memory.add_message", req.user_id) >>
            /\ pc' = "done"
            /\ reply' = reply
       ELSE /\ memory' = memory
            /\ trace' = Append(trace, Op("tts.synthesize_with_emotion", req.user_id))
            /\ pc' = "failed"
            /\ reply' = Http500(Exc("Exception", "boom"))
    /\ UNCHANGED << now, family, handled, req, cmd, ret, thrown, soft_failure,
                    jobs, notes, tasks, habits, habit_logs, moods, feedbacks,
                    cfg, fe_states, fe_name, fe_result, workers, weather >>

\* routes.py 196-235: the conversational fallback: profile and history,
\* llm.chat, the two memory entries, speech, the response
ChatLLM(llm_ok, tts_ok) ==
    /\ pc = "llm"
    /\ LET asked == trace \o << Op("profile.get_profile", req.user_id),
                                Op("memory.get_recent_messages", req.user_id),
                                Op("llm.chat", req.user_id) >>
           saved == asked \o << Op("memory.add_message", req.user_id),
                                Op("memory.add_message", req.user_id),
                                Op("tts.synthesize_with_emotion", req.user_id) >>
       IN  IF ~llm_ok
           THEN /\ trace' = asked
                /\ memory' = memory
                /\ pc' = "failed"
                /\ reply' = Http500(Exc("Exception", "boom"))
           ELSE /\ trace' = saved
                /\ memory' = [memory EXCEPT
                                  ![req.user_id] = AddMessage(AddMessage(@))]
                /\ pc' = IF tts_ok THEN "done" ELSE "failed"
                /\ reply' = IF tts_ok THEN Msg("llm reply", 0, NoTitle, "")
                            ELSE Http500(Exc("Exception", "boom"))
    /\ UNCHANGED << now, family, handled, req, cmd, ret, thrown, soft_failure,
                    jobs, notes, tasks, habits, habit_logs, moods, feedbacks,
                    cfg, fe_states, fe_name, fe_result, workers, weather >>

\* process_voice, routes.py 81-144: transcribe, profile and history,
\* llm.chat, the two memory entries, synthesis; a blank transcription is
\* HTTP 400, any exception HTTP 500
ProcessVoice(user_id, recognized_text, stt, llm_ok, tts_ok) ==
    /\ pc \in Resting
    /\ handled < MaxRequests
    /\ handled' = handled + 1
    /\ req' = [user_id |-> user_id,
               text |-> IF stt = "ok" THEN recognized_text ELSE NoText]
    /\ cmd' = NoCmd
    /\ ret' = NoRet
    /\ thrown' = NoExc
    /\ soft_failure' = FALSE
    /\ LET heard == << Op("stt.transcribe", user_id) >>
           asked == heard \o << Op("profile.get_profile", user_id),
                                Op("memory.get_recent_messages", user_id),
                                Op("llm.chat", user_id) >>
           saved == asked \o << Op("memory.add_message", user_id),
                                Op("memory.add_message", user_id),
                                Op("tts.synthesize_with_emotion", user_id) >>
       IN  IF stt # "ok"
           THEN /\ trace' = heard
                /\ memory' = memory
                /\ pc' = "voice_failed"
                /\ reply' = IF stt = "blank" THEN Http400
                            ELSE Http500(Exc("Exception", "boom"))
           ELSE IF ~llm_ok
           THEN /\ trace' = asked
                /\ memory' = memory
                /\ pc' = "voice_failed"
                /\ reply' = Http500(Exc("Exception", "boom"))
           ELSE /\ trace' = saved
                /\ memory' = [memory EXCEPT
                                  ![user_id] = AddMessage(AddMessage(@))]
                /\ pc' = IF tts_ok THEN "voice_done" ELSE "voice_failed"
                /\ reply' = IF tts_ok THEN Msg("llm reply", 0, NoTitle, "")
                            ELSE Http500(Exc("Exception", "boom"))
    /\ UNCHANGED << now, family, jobs, notes, tasks, habits, habit_logs, moods,
                    feedbacks, cfg, fe_states, fe_name, fe_result, workers,
                    weather >>

Next ==
    \/ Tick
    \/ \E user_id \in Users, text \in VoiceTexts[family] :
          \E llm_ok \in BOOLEAN :
            \E tts_ok \in IF llm_ok THEN BOOLEAN ELSE {TRUE} :
               ProcessVoice(user_id, text, "ok", llm_ok, tts_ok)
    \/ \E user_id \in Users, stt \in SttOutcomes \ {"ok"} :
            ProcessVoice(user_id, NoText, stt, TRUE, TRUE)
    \/ \E user_id \in Users, text \in ChatTexts[family] :
            ChatReceive(user_id, text)
    \/ ChatParse
    \/ \E env \in Environments : ChatExecute(env)
    \/ \E tts_ok \in BOOLEAN : ChatRespond(tts_ok)
    \/ \E llm_ok \in BOOLEAN, tts_ok \in BOOLEAN : ChatLLM(llm_ok, tts_ok)

Spec == Init /\ [][Next]_vars

-----------------------------------------------------------------------------
(* CommandParser.parse on its own: every text, one parse *)

InitParse ==
    /\ now = 0
    /\ family = "parse"
    /\ handled = 1
    /\ pc = "parse"
    /\ req \in [user_id : Users, text : ParseTexts(MaxMatched)]
    /\ cmd = NoCmd
    /\ ret = NoRet
    /\ reply = NoneMsg
    /\ trace = << >>
    /\ thrown = NoExc
    /\ soft_failure = FALSE
    /\ jobs = << >>
    /\ notes = EmptyStore
    /\ tasks = EmptyStore
    /\ habits = EmptyStore
    /\ habit_logs = EmptyStore
    /\ moods = EmptyStore
    /\ feedbacks = [u \in StoreUsers |-> 0]
    /\ memory = [u \in StoreUsers |-> 0]
    /\ cfg = [weather |-> FALSE, home_assistant |-> FALSE, mqtt |-> FALSE,
              calendar |-> FALSE]
    /\ fe_states = NoStates
    /\ fe_name = DefaultArg
    /\ fe_result = NoEntity
    /\ workers = NoWorkers
    /\ weather = NoWeather

NextParse == ChatParse

SpecParse == InitParse /\ [][NextParse]_vars

-----------------------------------------------------------------------------
(* CommandParser.parse called a second time with the same text and user,
   later and after the command was executed *)

ParseAgain ==
    /\ pc \in {"execute", "respond", "llm", "failed"}
    /\ trace # << >>
    /\ \E out \in { Parse(req.text, req.user_id, now) } :
           cmd' = [out |-> out, at |-> now]
    /\ pc' = "reparsed"
    /\ trace' = Append(trace, Op("parser.parse", req.user_id))
    /\ UNCHANGED << now, family, handled, req, ret, reply, thrown, soft_failure,
                    jobs, notes, tasks, habits, habit_logs, moods, feedbacks,
                    memory, cfg, fe_states, fe_name, fe_result, workers, weather >>

NextTwice ==
    \/ ChatParse
    \/ Tick
    \/ \E env \in Environments : ChatExecute(env)
    \/ ParseAgain

SpecTwice == InitParse /\ [][NextTwice]_vars

-----------------------------------------------------------------------------
(* CommandParser.parse on the texts that state a number of hours *)

MaxHours == 25

\* "napomni cherez N chasov: a" and "cherez N chasov", N up to MaxHours
HourTexts ==
    { [rules |-> {r}, num |-> n, hour_word |-> TRUE, unit |-> "hours",
       arg |-> DefaultArg, fc_city |-> FALSE] :
        r \in HourRules, n \in 0..MaxHours }

InitHours ==
    /\ now = 0
    /\ family = "hours"
    /\ handled = 1
    /\ pc = "parse"
    /\ req \in [user_id : Users, text : HourTexts]
    /\ cmd = NoCmd
    /\ ret = NoRet
    /\ reply = NoneMsg
    /\ trace = << >>
    /\ thrown = NoExc
    /\ soft_failure = FALSE
    /\ jobs = << >>
    /\ notes = EmptyStore
    /\ tasks = EmptyStore
    /\ habits = EmptyStore
    /\ habit_logs = EmptyStore
    /\ moods = EmptyStore
    /\ feedbacks = [u \in StoreUsers |-> 0]
    /\ memory = [u \in StoreUsers |-> 0]
    /\ cfg = [weather |-> FALSE, home_assistant |-> FALSE, mqtt |-> FALSE,
              calendar |-> FALSE]
    /\ fe_states = NoStates
    /\ fe_name = DefaultArg
    /\ fe_result = NoEntity
    /\ workers = NoWorkers
    /\ weather = NoWeather

NextHours == ChatParse

SpecHours == InitHours /\ [][NextHours]_vars

-----------------------------------------------------------------------------
(* execute_command on its own: every CommandResult with is_command=true,    *)
(* and the CommandResults with is_command=false                             *)

\* What parse returns for the texts one rule matches
ParsedCommands ==
    { Parse(text, user_id, 0).result :
        text \in { t \in TextsOf({ {r} : r \in Rules }) :
                      ~Parse(t, "alice", 0).raised },
        user_id \in Users }

\* CommandResult(is_command=True, command_type=tag) built directly, for any
\* tag of the closed intent set, with no params at all
BuiltCommands ==
    { CommandResult(TRUE, type, NoParams, NoneMsg, FALSE) : type \in IntentTags }

\* CommandResult(is_command=False): what parse returns for a text no rule
\* matches, and the same flag on a result that names an intent and a user
NonCommands ==
    { NotACommand } \cup
    { CommandResult(FALSE, type, [user_id |-> user_id], NoneMsg, TRUE) :
        type \in IntentTags, user_id \in Users }

ExecInputs == ParsedCommands \cup BuiltCommands \cup NonCommands

InitExecute ==
    /\ now = 0
    /\ family = "execute"
    /\ handled = 1
    /\ pc = "execute"
    /\ req = NoReq
    /\ cmd \in [out : { Returned(c) : c \in ExecInputs }, at : {0}]
    /\ ret = NoRet
    /\ reply = NoneMsg
    /\ trace = << >>
    /\ thrown = NoExc
    /\ soft_failure = FALSE
    /\ jobs = << >>
    /\ notes = EmptyStore
    /\ tasks = EmptyStore
    /\ habits = EmptyStore
    /\ habit_logs = EmptyStore
    /\ moods = EmptyStore
    /\ feedbacks = [u \in StoreUsers |-> 0]
    /\ memory = [u \in StoreUsers |-> 0]
    /\ cfg \in Configs
    /\ fe_states = NoStates
    /\ fe_name = DefaultArg
    /\ fe_result = NoEntity
    /\ workers = NoWorkers
    /\ weather = NoWeather

NextExecute == \E env \in Environments : ChatExecute(env)

SpecExecute == InitExecute /\ [][NextExecute]_vars

-----------------------------------------------------------------------------
(* execute_command applied again to the CommandResult it has just executed *)

\* The last minute of a day
DayEnd == MinutesPerDay - 1

\* The commands that complete or log something
AgainCommands ==
    { c \in ParsedCommands :
        c.command_type \in {"task_done", "habit_done", "mood_log"} }

\* The task list / habit list of a user who has added k of the Titles
SeededTasks(u, k) ==
    IF k = 0 THEN << >>
    ELSE IF k = 1 THEN AddTask(<< >>, u, << "a" >>, "normal", 0)
    ELSE AddTask(AddTask(<< >>, u, << "a" >>, "normal", 0),
                 u, << "A", "b" >>, "normal", 0)

SeededHabits(u, k) ==
    IF k = 0 THEN << >>
    ELSE IF k = 1 THEN AddHabit(<< >>, u, << "a" >>, 0)
    ELSE AddHabit(AddHabit(<< >>, u, << "a" >>, 0), u, << "A", "b" >>, 0)

InitAgain ==
    /\ now = DayEnd
    /\ family = "again"
    /\ handled = 1
    /\ pc = "execute"
    /\ req = NoReq
    /\ cmd \in [out : { Returned(c) : c \in AgainCommands }, at : {DayEnd}]
    /\ ret = NoRet
    /\ reply = NoneMsg
    /\ trace = << >>
    /\ thrown = NoExc
    /\ soft_failure = FALSE
    /\ jobs = << >>
    /\ notes = EmptyStore
    /\ \E k \in 0..2 :
          /\ tasks = [u \in StoreUsers |-> SeededTasks(u, k)]
          /\ habits = [u \in StoreUsers |-> SeededHabits(u, k)]
    /\ habit_logs = EmptyStore
    /\ moods = EmptyStore
    /\ feedbacks = [u \in StoreUsers |-> 0]
    /\ memory = [u \in StoreUsers |-> 0]
    /\ cfg = [weather |-> FALSE, home_assistant |-> FALSE, mqtt |-> FALSE,
              calendar |-> FALSE]
    /\ fe_states = NoStates
    /\ fe_name = DefaultArg
    /\ fe_result = NoEntity
    /\ workers = NoWorkers
    /\ weather = NoWeather

\* The day ends between two executions
Midnight ==
    /\ pc = "respond"
    /\ now = DayEnd
    /\ now' = now + 1
    /\ UNCHANGED << family, handled, pc, req, cmd, ret, reply, trace, thrown,
                    soft_failure, jobs, notes, tasks, habits, habit_logs,
                    moods, feedbacks, memory, cfg, fe_states, fe_name,
                    fe_result, workers, weather >>

\* execute_command(cmd_result) once more, with the same cmd_result
ExecuteAgain(env) ==
    /\ pc = "respond"
    /\ handled < MaxRequests
    /\ handled' = handled + 1
    /\ \E eff \in { ExecuteCommand(cmd.out.result, Stores, env, cfg, now) } :
           /\ ret' = eff.ret
           /\ thrown' = eff.thrown
           /\ soft_failure' = eff.failed
           /\ trace' = Append(trace, Op("execute_command", req.user_id)) \o eff.ops
           /\ jobs' = eff.st.jobs
           /\ notes' = eff.st.notes
           /\ tasks' = eff.st.tasks
           /\ habits' = eff.st.habits
           /\ habit_logs' = eff.st.habit_logs
           /\ moods' = eff.st.moods
           /\ feedbacks' = eff.st.feedbacks
           /\ pc' = IF eff.ret.raised THEN "failed" ELSE "respond"
           /\ reply' = IF eff.ret.raised THEN Http500(eff.ret.exc)
                       ELSE FinalResponse(eff.ret.message, cmd.out.result.response)
    /\ UNCHANGED << now, family, req, cmd, memory, cfg, fe_states, fe_name,
                    fe_result, workers, weather >>

NextAgain ==
    \/ \E env \in Environments : ChatExecute(env)
    \/ Midnight
    \/ \E env \in Environments : ExecuteAgain(env)

SpecAgain == InitAgain /\ [][NextAgain]_vars

-----------------------------------------------------------------------------
(* find_entity_by_name on its own: every device list, one lookup *)

EntityNames == { << "a" >>, << "A", "b" >>, << "b" >> }
EntityIds == { << "a" >>, << "b" >>, << "c" >> }
Entities == [name : EntityNames, entity_id : EntityIds]

\* The sequences over S of length at most n
RECURSIVE SeqsUpTo(_, _)
SeqsUpTo(S, n) ==
    IF n = 0 THEN { << >> }
    ELSE LET shorter == SeqsUpTo(S, n - 1)
         IN  shorter \cup { Append(q, x) : q \in shorter, x \in S }

InitFind ==
    /\ now = 0
    /\ family = "find"
    /\ handled = 0
    /\ pc = "find"
    /\ req = NoReq
    /\ cmd = NoCmd
    /\ ret = NoRet
    /\ reply = NoneMsg
    /\ trace = << >>
    /\ thrown = NoExc
    /\ soft_failure = FALSE
    /\ jobs = << >>
    /\ notes = EmptyStore
    /\ tasks = EmptyStore
    /\ habits = EmptyStore
    /\ habit_logs = EmptyStore
    /\ moods = EmptyStore
    /\ feedbacks = [u \in StoreUsers |-> 0]
    /\ memory = [u \in StoreUsers |-> 0]
    /\ cfg = [weather |-> FALSE, home_assistant |-> TRUE, mqtt |-> FALSE,
              calendar |-> FALSE]
    /\ fe_states \in [success : BOOLEAN,
                      devices : SeqsUpTo(Entities, MaxDevices)]
    /\ fe_name \in EntityNames
    /\ fe_result = NoEntity
    /\ workers = NoWorkers
    /\ weather = NoWeather

\* entity_id = find_entity_by_name(states, device)
FindEntity ==
    /\ pc = "find"
    /\ fe_result' = FindEntityByName(fe_states, fe_name)
    /\ pc' = "found"
    /\ UNCHANGED << now, family, handled, req, cmd, ret, reply, trace, thrown,
                    soft_failure, jobs, notes, tasks, habits, habit_logs,
                    moods, feedbacks, memory, cfg, fe_states, fe_name,
                    workers, weather >>

NextFind == FindEntity

SpecFind == InitFind /\ [][NextFind]_vars

-----------------------------------------------------------------------------
(* The stores on their own: NotesManager, HabitTracker and MoodTracker
   methods, each a load of the user's JSON file followed by a save *)

MaxOps == 4

StoreFamilies == {"notes", "tasks", "habits", "mood"}

\* The methods that append a record
AddOps == {"add_note", "add_task", "add_habit", "log_mood"}

StoreOps(f) ==
    CASE f = "notes" -> {"add_note", "delete_note"}
      [] f = "tasks" -> {"add_task", "delete_task", "complete_task"}
      [] f = "habits" -> {"add_habit", "delete_habit", "log_habit"}
      [] f = "mood" -> {"log_mood"}

\* NotesManager.delete_note / delete_task: the list without the record
DeleteById(rs, id) == SelectSeq(rs, LAMBDA r : r.id # id)

\* HabitTracker.delete_habit: the first habit whose name contains the given
\* name is deactivated
DeleteHabit(hs, habit_name) ==
    LET i == FindHabit(hs, habit_name)
    IN  IF i = 0 THEN hs ELSE [hs EXCEPT ![i].active = FALSE]

\* The file an operation loads first
FileOf(op, user_id) ==
    IF op \in {"add_note", "delete_note"} THEN notes[user_id]
    ELSE IF op \in {"add_task", "delete_task", "complete_task"} THEN tasks[user_id]
    ELSE IF op = "log_mood" THEN moods[user_id]
    ELSE habits[user_id]

\* The arguments a caller can pass to op
ArgsOf(op, user_id) ==
    IF op \in {"delete_note", "delete_task"}
    THEN { FileOf(op, user_id)[i].id : i \in 1..Len(FileOf(op, user_id)) }
    ELSE Titles

InitStore ==
    /\ now = DayEnd
    /\ family \in StoreFamilies
    /\ handled = 0
    /\ pc = "store"
    /\ req = NoReq
    /\ cmd = NoCmd
    /\ ret = NoRet
    /\ reply = NoneMsg
    /\ trace = << >>
    /\ thrown = NoExc
    /\ soft_failure = FALSE
    /\ jobs = << >>
    /\ notes = EmptyStore
    /\ tasks = EmptyStore
    /\ habits = EmptyStore
    /\ habit_logs = EmptyStore
    /\ moods = EmptyStore
    /\ feedbacks = [u \in StoreUsers |-> 0]
    /\ memory = [u \in StoreUsers |-> 0]
    /\ cfg = [weather |-> FALSE, home_assistant |-> FALSE, mqtt |-> FALSE,
              calendar |-> FALSE]
    /\ fe_states = NoStates
    /\ fe_name = DefaultArg
    /\ fe_result = NoEntity
    /\ workers = NoWorkers
    /\ weather = NoWeather

\* The clock passes midnight
ClockAdvance ==
    /\ pc = "store"
    /\ now = DayEnd
    /\ now' = now + 1
    /\ UNCHANGED << family, handled, pc, req, cmd, ret, reply, trace, thrown,
                    soft_failure, jobs, notes, tasks, habits, habit_logs,
                    moods, feedbacks, memory, cfg, fe_states, fe_name,
                    fe_result, workers, weather >>

\* The first half of a store method: self._load_...(user_id)
StoreLoad(w, op, user_id, arg) ==
    /\ pc = "store"
    /\ workers[w].pc \in {"idle", "done"}
    /\ handled < MaxOps
    /\ handled' = handled + 1
    /\ workers' = [workers EXCEPT ![w] =
                      [pc |-> "loaded", op |-> op, user_id |-> user_id,
                       arg |-> arg, loaded |-> FileOf(op, user_id),
                       logs |-> habit_logs[user_id], result |-> None]]
    /\ UNCHANGED << now, family, pc, req, cmd, ret, reply, trace, thrown,
                    soft_failure, jobs, notes, tasks, habits, habit_logs,
                    moods, feedbacks, memory, cfg, fe_states, fe_name,
                    fe_result, weather >>

\* The second half: the change made to the loaded list and
\* self._save_...(user_id, list); result is what the method returns
StoreSave(w) ==
    /\ pc = "store"
    /\ workers[w].pc = "loaded"
    /\ LET me == workers[w]
           u == me.user_id
           i == IF me.op = "complete_task" THEN FindTask(me.loaded, me.arg)
                ELSE IF me.op \in {"delete_habit", "log_habit"}
                THEN FindHabit(me.loaded, me.arg)
                ELSE 0
       IN  /\ notes' = IF me.op = "add_note"
                       THEN [notes EXCEPT ![u] = AddNote(me.loaded, u, me.arg, now)]
                       ELSE IF me.op = "delete_note"
                       THEN [notes EXCEPT ![u] = DeleteById(me.loaded, me.arg)]
                       ELSE notes
           /\ tasks' = IF me.op = "add_task"
                       THEN [tasks EXCEPT ![u] =
                                AddTask(me.loaded, u, me.arg, "normal", now)]
                       ELSE IF me.op = "delete_task"
                       THEN [tasks EXCEPT ![u] = DeleteById(me.loaded, me.arg)]
                       ELSE IF me.op = "complete_task" /\ i # 0
                       THEN [tasks EXCEPT ![u] = CompleteTask(me.loaded, me.arg)]
                       ELSE tasks
           /\ habits' = IF me.op = "add_habit"
                        THEN [habits EXCEPT ![u] = AddHabit(me.loaded, u, me.arg, now)]
                        ELSE IF me.op = "delete_habit" /\ i # 0
                        THEN [habits EXCEPT ![u] = DeleteHabit(me.loaded, me.arg)]
                        ELSE habits
           /\ habit_logs' = IF me.op = "log_habit" /\ i # 0
                            THEN [habit_logs EXCEPT ![u] =
                                     LogHabit(me.logs, me.loaded[i].id, now)]
                            ELSE habit_logs
           /\ moods' = IF me.op = "log_mood"
                       THEN [moods EXCEPT ![u] =
                                LogMood(me.loaded, u, "good", 7, me.arg, now)]
                       ELSE moods
           /\ workers' = [workers EXCEPT ![w].pc = "done",
                             ![w].result =
                                 IF me.op \in {"complete_task", "delete_habit",
                                               "log_habit"}
                                 THEN (IF i = 0 THEN "none" ELSE "found")
                                 ELSE IF me.op \in {"delete_note", "delete_task"}
                                 THEN (IF Len(DeleteById(me.loaded, me.arg))
                                            < Len(me.loaded)
                                       THEN "found" ELSE "none")
                                 ELSE "added"]
    /\ UNCHANGED << now, family, handled, pc, req, cmd, ret, reply, trace,
                    thrown, soft_failure, jobs, feedbacks, memory, cfg,
                    fe_states, fe_name, fe_result, weather >>

\* One caller at a time: every method runs from its load to its save
NextStore ==
    \/ ClockAdvance
    \/ \E op \in StoreOps(family), user_id \in Users :
          \E arg \in ArgsOf(op, user_id) :
             /\ \A w \in Workers : workers[w].pc # "loaded"
             /\ StoreLoad(1, op, user_id, arg)
    \/ StoreSave(1)

SpecStore == InitStore /\ [][NextStore]_vars

\* Several callers at once, each appending a record: their loads and saves
\* interleave freely
NextRace ==
    \/ \E w \in Workers, op \in StoreOps(family) \cap AddOps,
          user_id \in Users, arg \in Titles :
             StoreLoad(w, op, user_id, arg)
    \/ \E w \in Workers : StoreSave(w)

SpecRace == InitStore /\ [][NextRace]_vars

-----------------------------------------------------------------------------
(* WeatherService.format_current on its own, for every rounded temperature *)

MaxTemp == 40

\* The data get_current hands over: round(main.temp), round(main.feels_like),
\* wind.speed and main.humidity, or a failure
WeatherData ==
    { [success |-> ok, temp |-> temp, feels_like |-> temp - d,
       wind_speed |-> wind, humidity |-> hum] :
        ok \in BOOLEAN, temp \in -MaxTemp..MaxTemp, d \in {0, 3},
        wind \in {10, 11}, hum \in {80, 81} }

Abs(n) == IF n < 0 THEN -n ELSE n

\* str.capitalize() on the six descriptors
Capitalize(temp_feel) ==
    CASE temp_feel = "ochen kholodno" -> "Ochen kholodno"
      [] temp_feel = "kholodno" -> "Kholodno"
      [] temp_feel = "prokhladno" -> "Prokhladno"
      [] temp_feel = "umerenno" -> "Umerenno"
      [] temp_feel = "teplo" -> "Teplo"
      [] temp_feel = "zharko" -> "Zharko"

\* The ladder of format_current with every bound exclusive
TempFeelStrict(temp) ==
    IF temp < -15 THEN "ochen kholodno"
    ELSE IF temp < -5 THEN "kholodno"
    ELSE IF temp < 5 THEN "prokhladno"
    ELSE IF temp < 15 THEN "umerenno"
    ELSE IF temp < 25 THEN "teplo"
    ELSE "zharko"

\* format_current: the if/elif ladder that sets temp_feel
TempFeel(temp) ==
    IF temp <= -15 THEN "ochen kholodno"
    ELSE IF temp <= -5 THEN "kholodno"
    ELSE IF temp <= 5 THEN "prokhladno"
    ELSE IF temp <= 15 THEN "umerenno"
    ELSE IF temp <= 25 THEN "teplo"
    ELSE "zharko"

\* format_current(data): the text, as the temperature clause (with the
\* feels-like remark when it differs by 3 or more), the temperature, and the
\* descriptor sentence followed by the wind and humidity remarks
FormatCurrent(data) ==
    IF ~data.success
    THEN Msg("Ne udalos poluchit pogodu: ", 0, NoTitle, "error")
    ELSE Msg("V gorode ... seichas"
                 \o (IF Abs(data.temp - data.feels_like) >= 3
                     THEN " (oshchushchaetsya kak)" ELSE ""),
             data.temp, NoTitle,
             Capitalize(TempFeel(data.temp)) \o "."
                 \o (IF data.wind_speed > 10 THEN " Veter." ELSE "")
                 \o (IF data.humidity > 80 THEN " Vysokaya vlazhnost." ELSE ""))

InitTemp ==
    /\ now = 0
    /\ family = "weather"
    /\ handled = 1
    /\ pc = "format"
    /\ req = NoReq
    /\ cmd = NoCmd
    /\ ret = NoRet
    /\ reply = NoneMsg
    /\ trace = << >>
    /\ thrown = NoExc
    /\ soft_failure = FALSE
    /\ jobs = << >>
    /\ notes = EmptyStore
    /\ tasks = EmptyStore
    /\ habits = EmptyStore
    /\ habit_logs = EmptyStore
    /\ moods = EmptyStore
    /\ feedbacks = [u \in StoreUsers |-> 0]
    /\ memory = [u \in StoreUsers |-> 0]
    /\ cfg = [weather |-> TRUE, home_assistant |-> FALSE, mqtt |-> FALSE,
              calendar |-> FALSE]
    /\ fe_states = NoStates
    /\ fe_name = DefaultArg
    /\ fe_result = NoEntity
    /\ workers = NoWorkers
    /\ weather \in WeatherData

\* weather.format_current(data)
FormatCurrentStep ==
    /\ pc = "format"
    /\ reply' = FormatCurrent(weather)
    /\ pc' = "formatted"
    /\ UNCHANGED << now, family, handled, req, cmd, ret, trace, thrown,
                    soft_failure, jobs, notes, tasks, habits, habit_logs,
                    moods, feedbacks, memory, cfg, fe_states, fe_name,
                    fe_result, workers, weather >>

NextTemp == FormatCurrentStep

SpecTemp == InitTemp /\ [][NextTemp]_vars

-----------------------------------------------------------------------------
(* Properties *)

\* Number of calls named name in a trace
Count(tr, name) == Cardinality({ i \in 1..Len(tr) : tr[i].op = name })

\* The calls the request handlers themselves make; every other call in trace
\* is made by execute_command on a scheduler, a store or an integration
HandlerOps ==
    {"parser.parse", "execute_command", "llm.chat", "profile.get_profile",
     "memory.get_recent_messages", "memory.add_message",
     "tts.synthesize_with_emotion", "stt.transcribe"}

ExecutorCalls(tr) == { i \in 1..Len(tr) : tr[i].op \notin HandlerOps }

\* Calls on the weather service, the smart-home integrations, the calendar
IntegrationOps ==
    {"weather.get_current", "weather.get_forecast", "ha.list_devices",
     "ha.turn_on", "ha.turn_off", "ha.get_state", "mqtt.execute",
     "calendar.get_today_events", "calendar.get_upcoming_events"}

IntegrationCalls(tr) == { i \in 1..Len(tr) : tr[i].op \in IntegrationOps }

RequestEnded == pc \in {"done", "failed"}
Parsed == cmd.out.result
SchedulingTypes == {"reminder", "timer", "pomodoro", "break"}

\* C1: when a request has ended, exactly one of the two paths has run: if
\* parse returned is_command=true and execute=false then execute_command was
\* called once and llm.chat never; otherwise llm.chat was called once and
\* neither execute_command nor any scheduler, store or integration operation.
C1_ExactlyOnePath ==
    RequestEnded =>
        IF Parsed.is_command /\ ~Parsed.execute
        THEN /\ Count(trace, "execute_command") = 1
             /\ Count(trace, "llm.chat") = 0
        ELSE /\ Count(trace, "llm.chat") = 1
             /\ Count(trace, "execute_command") = 0
             /\ ExecutorCalls(trace) = {}

\* C2: for every text and user, parse returns one CommandResult whose flags
\* agree: a rule matched <=> is_command <=> command_type is a tag of the
\* closed intent set <=> execute=false; with no rule matched, command_type is
\* null and execute is true.
C2_FlagsAgree ==
    pc # "parse" =>
        /\ ~cmd.out.raised
        /\ (req.text.rules # {}) <=> Parsed.is_command
        /\ Parsed.is_command <=> (Parsed.command_type \in IntentTags)
        /\ Parsed.is_command <=> ~Parsed.execute
        /\ (req.text.rules = {}) =>
                /\ ~Parsed.is_command
                /\ Parsed.command_type = None
                /\ Parsed.execute

\* The rule of a text that comes first in the order of the Pattern Library
EarliestRule(text) == CHOOSE r \in text.rules : \A q \in text.rules : r <= q

\* C3: when a text satisfies several rules, parse returns the command of the
\* earliest of them in the fixed 31-rule order, exactly as if the later rules
\* had not matched.
C3_EarliestRuleWins ==
    (pc # "parse" /\ Cardinality(req.text.rules) >= 2) =>
        LET first == EarliestRule(req.text)
            alone == [req.text EXCEPT !.rules = {first}]
        IN  /\ ~cmd.out.raised
            /\ Parsed.is_command
            /\ Parsed.command_type = TagOfRule(first)
            /\ Parsed = Parse(alone, req.user_id, cmd.at).result

C5_ErrorTuple ==
    (pc = "respond" /\ thrown # NoExc) =>
        ret = Ret(FALSE, Msg("Oshibka: ", 0, NoTitle, thrown.msg))

SoftFailingOps ==
    {"weather.get_current", "weather.get_forecast",
     "calendar.get_today_events", "calendar.get_upcoming_events"}

\* C6: whenever a weather or calendar call of the executor answers with
\* success=false without raising, execute_command returns success=false with
\* a message.
C6_SoftFailureIsFailure ==
    (/\ pc = "respond"
     /\ soft_failure
     /\ \E i \in 1..Len(trace) : trace[i].op \in SoftFailingOps)
        => (~ret.success /\ Truthy(ret.message))

\* No stored record of the command's user contains the text looked up
NoRecordMatches ==
    LET user_id == ParamUser(Parsed.params)
    IN  CASE Parsed.command_type = "note_search" ->
                SearchNotes(notes[user_id], Parsed.params.query) = << >>
          [] Parsed.command_type = "task_done" ->
                FindTask(tasks[user_id], Parsed.params.title) = 0
          [] Parsed.command_type = "habit_done" ->
                FindHabit(habits[user_id], Parsed.params.name) = 0
          [] OTHER -> FALSE

\* C7: for note_search, task_done and habit_done, when no stored record of
\* the user contains the query/title/name, execute_command returns
\* (false, message) and leaves notes, tasks, habits and habit logs unchanged.
C7_LookupMiss ==
    [][ (/\ pc = "execute"
         /\ pc' = "respond"
         /\ Parsed.command_type \in {"note_search", "task_done", "habit_done"}
         /\ NoRecordMatches)
            => (/\ ~ret'.success
                /\ Truthy(ret'.message)
                /\ UNCHANGED << notes, tasks, habits, habit_logs >>) ]_vars

\* The integration the parsed command depends on is not configured/connected
Unconfigured ==
    \/ Parsed.command_type = "weather" /\ ~cfg.weather
    \/ Parsed.command_type = "smart_home" /\ ~cfg.home_assistant /\ ~cfg.mqtt
    \/ Parsed.command_type \in {"calendar_today", "calendar_upcoming"}
        /\ ~cfg.calendar

\* The instructional message of the integration a command type depends on
InstructionOf(type) ==
    CASE type = "weather" -> Msg("Pogoda ne nastroena.", 0, NoTitle, "")
      [] type = "smart_home" ->
            Msg("Net podklyuchennyh integratsiy umnogo doma.", 0, NoTitle, "")
      [] OTHER -> Msg("Kalendar ne podklyuchen.", 0, NoTitle, "")

\* C8: when the integration a command depends on is not configured or not
\* connected, execute_command returns success=false with that integration's
\* instructional message and performs no operation on any integration.
C8_UnconfiguredIntegration ==
    (pc = "respond" /\ Unconfigured) =>
        /\ ret = Ret(FALSE, InstructionOf(Parsed.command_type))
        /\ IntegrationCalls(trace) = {}

\* C8 witness: a smart-home command has been executed with neither Home
\* Assistant nor MQTT connected
C8_Witness ==
    /\ pc = "respond"
    /\ Parsed.command_type = "smart_home"
    /\ ~cfg.home_assistant /\ ~cfg.mqtt
    /\ ~ret.success

\* C9: a successful execute_command of a reminder, timer, pomodoro or break
\* makes exactly one scheduler.add_reminder call with the result's user_id,
\* message and the run_at fixed at parse time (parse time + minutes), and
\* returns (true, the scripted response); no step ever changes or removes a
\* reminder already scheduled.
C9_ReminderScheduledOnce ==
    [][ /\ (/\ pc = "execute"
            /\ pc' = "respond"
            /\ Parsed.command_type \in SchedulingTypes
            /\ ret'.success)
               => (/\ Len(jobs') = Len(jobs) + 1
                   /\ jobs'[Len(jobs')].user_id = Parsed.params.user_id
                   /\ jobs'[Len(jobs')].message = Parsed.params.message
                   /\ jobs'[Len(jobs')].run_at = Parsed.params.run_at
                   /\ jobs'[Len(jobs')].run_at = cmd.at + Parsed.params.minutes
                   /\ Count(trace', "scheduler.add_reminder") = 1
                   /\ ret' = Ret(TRUE, Parsed.response))
        /\ Len(jobs') >= Len(jobs)
        /\ SubSeq(jobs', 1, Len(jobs)) = jobs ]_vars

\* C9 witness: a reminder was scheduled by an execute_command that ran later
\* than the parse, and its run_at is still parse time + minutes
C9_Witness ==
    /\ pc = "respond"
    /\ Parsed.command_type \in SchedulingTypes
    /\ ret.success
    /\ now > cmd.at
    /\ jobs # << >>
    /\ jobs[Len(jobs)].run_at = cmd.at + Parsed.params.minutes

\* The three ways find_entity_by_name matches an entity, as sets of positions
ExactMatches ==
    { i \in 1..Len(fe_states.devices) :
        Lower(fe_states.devices[i].name) = Lower(fe_name) }
NameMatches ==
    { i \in 1..Len(fe_states.devices) :
        \/ Contains(Lower(fe_name), Lower(fe_states.devices[i].name))
        \/ Contains(Lower(fe_states.devices[i].name), Lower(fe_name)) }
IdMatches ==
    { i \in 1..Len(fe_states.devices) :
        Contains(Lower(fe_name), Lower(fe_states.devices[i].entity_id)) }

IdsAt(S) == { fe_states.devices[i].entity_id : i \in S }

\* C10: find_entity_by_name returns an entity whose name equals the name
\* (case-insensitively) if there is one anywhere in the list; only if there is
\* none, an entity matched by substring on the name; only if there is none of
\* those, an entity matched by substring on the entity id.
C10_StrictPriority ==
    (pc = "found" /\ fe_states.success) =>
        IF ExactMatches # {} THEN fe_result \in IdsAt(ExactMatches)
        ELSE IF NameMatches # {} THEN fe_result \in IdsAt(NameMatches)
        ELSE IF IdMatches # {} THEN fe_result \in IdsAt(IdMatches)
        ELSE fe_result = NoEntity

\* Calls that act on a Home Assistant entity
EntityOps == {"ha.turn_on", "ha.turn_off", "ha.get_state"}

\* The device of the parsed smart-home command matches no listed entity
NoEntityMatches ==
    FindEntityByName([success |-> TRUE, devices |-> HADevices],
                     Parsed.params.device) = NoEntity

\* C11: with Home Assistant connected, a smart_home command whose device
\* matches no entity of a successfully fetched list returns (false,
\* "Ustroistvo '<device>' ne naideno") and makes no turn_on / turn_off /
\* get_state call; and that report is given only then: when the listing
\* itself fails, the message is a different one.
C11_NotFoundOnlyWhenListed ==
    (/\ pc = "respond"
     /\ Parsed.command_type = "smart_home"
     /\ cfg.home_assistant
     /\ thrown = NoExc)
        => /\ (NoEntityMatches /\ ~soft_failure) =>
                /\ ret = Ret(FALSE, Msg("Ustroistvo ne naideno", 0,
                                        Parsed.params.device, ""))
                /\ \A i \in 1..Len(trace) : trace[i].op \notin EntityOps
           /\ (ret.message.tag = "Ustroistvo ne naideno") =>
                (NoEntityMatches /\ ~soft_failure)

\* C12: every CommandResult that parse returns with is_command = true
\* carries in params the key user_id, bound to the user_id that was passed
\* to parse; time, date and weather results included.
C12_ParamsCarryUserId ==
    (~cmd.out.raised /\ Parsed.is_command)
        => /\ "user_id" \in DOMAIN Parsed.params
           /\ Parsed.params["user_id"] = req.user_id

\* C13: every inbound utterance, typed (chat_message) or recognised from
\* speech (process_voice), goes through the Command Parser first, and the
\* LLM is called only for an utterance the parser does not classify as a
\* command.
C13_ParserBeforeLLM ==
    \A i \in 1..Len(trace) :
        trace[i].op = "llm.chat"
            => /\ \E j \in 1..(i - 1) : trace[j].op = "parser.parse"
               /\ ~cmd.out.raised
               /\ ~Parsed.is_command

\* new is old with one more record at the end, whose field holds value and
\* whose id no record of old has
AppendedFresh(old, new, field, value) ==
    /\ Len(new) = Len(old) + 1
    /\ SubSeq(new, 1, Len(old)) = old
    /\ new[Len(new)][field] = value
    /\ \A i \in 1..Len(old) : old[i].id # new[Len(new)].id

\* C14: each execution of a note_add / task_add / habit_add CommandResult
\* appends one record holding the command's content / title / name under an
\* id no stored record has, so executing the same CommandResult twice
\* leaves two distinct records: count + 2, same text, different ids.
C14_AddTwiceAddsTwo ==
    [][ (pc = "execute" /\ pc' = "respond" /\ ret'.success)
          => LET u == ParamUser(Parsed.params)
                 p == Parsed.params
             IN  /\ Parsed.command_type = "note_add"
                      => AppendedFresh(notes[u], notes'[u], "content", p.content)
                 /\ Parsed.command_type = "task_add"
                      => AppendedFresh(tasks[u], tasks'[u], "title", p.title)
                 /\ Parsed.command_type = "habit_add"
                      => AppendedFresh(habits[u], habits'[u], "name", p.name)
      ]_vars

\* The same note_add was executed twice within one clock reading
C14_Witness ==
    /\ pc = "respond"
    /\ handled = 2
    /\ Parsed.command_type = "note_add"
    /\ ret.success
    /\ LET ns == notes[req.user_id]
       IN  /\ Len(ns) = 2
           /\ ns[1].content = Parsed.params.content
           /\ ns[2].content = Parsed.params.content
           /\ ns[1].created_at = ns[2].created_at
           /\ ns[1].id # ns[2].id

\* A step that executes once more the command whose execution has just
\* succeeded, with no exception inside the executor this time
Reexecuted ==
    /\ pc = "respond"
    /\ ret.success
    /\ handled' = handled + 1
    /\ pc' = "respond"
    /\ thrown' = NoExc
    /\ Parsed.command_type \in {"task_done", "habit_done", "mood_log"}

C16_StatedUnitDecides ==
    (/\ ~cmd.out.raised
     /\ Parsed.command_type = "reminder"
     /\ REMINDER_WITH_TEXT \in req.text.rules)
        => LET stated == IF req.text.unit = "hours"
                         THEN req.text.num * MinutesPerHour
                         ELSE req.text.num
           IN  /\ Parsed.params.minutes = stated
               /\ Parsed.params.run_at = cmd.at + stated
               /\ Parsed.response.text = req.text.arg

\* The noun form Russian grammar asks for after the number n
RussianHourForm(n) ==
    IF n % 10 = 1 /\ n % 100 # 11 THEN "chas"
    ELSE IF 2 <= n % 10 /\ n % 10 <= 4 /\ n % 100 \notin 12..14 THEN "chasa"
    ELSE "chasov"

\* C17: for every hour count N >= 0 in a generated Russian reminder
\* response the noun is "chas" when N % 10 = 1 and N % 100 # 11, "chasa"
\* when 2 <= N % 10 <= 4 and N % 100 is not in 12..14, "chasov" otherwise.
C17_HourNounForm ==
    (/\ ~cmd.out.raised
     /\ Parsed.command_type = "reminder"
     /\ req.text.hour_word
     /\ req.text.rules \cap HourRules # {})
        => Parsed.response.detail = RussianHourForm(req.text.num)

\* Two outcomes of parse agree on everything but params.run_at
SameButRunAt(a, b) ==
    /\ a.raised = b.raised
    /\ a.exc = b.exc
    /\ a.result.is_command = b.result.is_command
    /\ a.result.command_type = b.result.command_type
    /\ a.result.execute = b.result.execute
    /\ DOMAIN a.result.params = DOMAIN b.result.params
    /\ \A k \in DOMAIN a.result.params \ {"run_at"} :
           a.result.params[k] = b.result.params[k]

\* The step is a call of parse
ParseStep ==
    /\ Len(trace') = Len(trace) + 1
    /\ trace'[Len(trace')].op = "parser.parse"

\* C18: parse is pure and deterministic: a call changes no store, scheduler
\* or integration state, and a second call with the same text and user_id,
\* at another moment and after other operations, returns the same
\* is_command, command_type and execute and the same params but for run_at.
C18_ParseIsPure ==
    [][ ParseStep
          => /\ UNCHANGED << jobs, notes, tasks, habits, habit_logs, moods,
                             feedbacks, memory, cfg >>
             /\ (pc # "parse") => SameButRunAt(cmd.out, cmd'.out) ]_vars

\* A reminder text was parsed at one moment, its reminder scheduled, and
\* parsed again at a later moment
C18_Witness ==
    /\ pc = "reparsed"
    /\ Parsed.command_type = "reminder"
    /\ Len(jobs) = 1
    /\ jobs[1].run_at # Parsed.params.run_at
    /\ Parsed.params.minutes + cmd.at = Parsed.params.run_at

\* C19: on both paths of chat_message, once execute_command has returned or
\* the LLM reply has been handed to a downstream step, the request does not
\* end before the final text was given to audio synthesis and the user's
\* text and the final text were appended to the user's memory, even if a
\* downstream step fails.
C19_AlwaysSpokenAndLogged ==
    (/\ RequestEnded
     /\ \/ Count(trace, "execute_command") = 1 /\ ~ret.raised
        \/ /\ Count(trace, "llm.chat") = 1
           /\ Count(trace, "tts.synthesize_with_emotion")
                + Count(trace, "memory.add_message") > 0)
        => /\ Count(trace, "tts.synthesize_with_emotion") = 1
           /\ Count(trace, "memory.add_message") = 2
           /\ \A i \in 1..Len(trace) :
                  trace[i].op = "memory.add_message"
                      => trace[i].user_id = req.user_id

\* C20: on the command path the response text handed back is never null or
\* empty: whatever execute_command returned (success or failure, with a
\* message, with null or with ""), it is the executor's message, else the
\* parser's scripted response, else the fixed text "Gotovo!".
C20_ResponseNeverEmpty ==
    (pc \in {"respond", "done"} /\ Count(trace, "execute_command") = 1)
        => /\ Truthy(reply)
           /\ reply = IF Truthy(ret.message) THEN ret.message
                      ELSE IF Truthy(Parsed.response) THEN Parsed.response
                      ELSE Msg("Gotovo!", 0, NoTitle, "")

\* A command was executed, neither the executor nor the parser gave a text,
\* and the request was answered with the fixed text
C20_Witness ==
    /\ pc = "done"
    /\ Count(trace, "execute_command") = 1
    /\ ~Truthy(ret.message)
    /\ ~Truthy(Parsed.response)
    /\ reply = Msg("Gotovo!", 0, NoTitle, "")

\* The file of the store the behaviour is about
FamilyStore ==
    IF family = "notes" THEN notes
    ELSE IF family = "tasks" THEN tasks
    ELSE IF family = "habits" THEN habits
    ELSE moods

\* The records kept, over all users
Records(st) ==
    UNION { { << u, i >> : i \in 1..Len(st[u]) } : u \in Users }

\* C21: the stores serialize their writes: when add operations (add_note,
\* add_task, add_habit, log_mood) run concurrently, with their load and save
\* steps interleaved in any order, every record added is in the store once
\* they have all returned (no lost update).
C21_NoLostUpdate ==
    (family \in StoreFamilies /\ \A w \in Workers : workers[w].pc # "loaded")
        => Cardinality(Records(FamilyStore)) = handled

\* The stored data of user v: notes, tasks, habits, habit logs, mood
\* entries, conversation memory
DataOf(v) ==
    << notes[v], tasks[v], habits[v], habit_logs[v], moods[v], memory[v] >>

C23_NonCommandNoEffect ==
    (family = "execute" /\ pc # "execute" /\ ~Parsed.is_command) =>
        /\ ret = Ret(FALSE, NoneMsg)
        /\ trace = << Op("execute_command", req.user_id) >>
        /\ thrown = NoExc
        /\ Stores = [jobs |-> << >>, notes |-> EmptyStore, tasks |-> EmptyStore,
                     habits |-> EmptyStore, habit_logs |-> EmptyStore,
                     moods |-> EmptyStore,
                     feedbacks |-> [u \in StoreUsers |-> 0]]

\* execute_command has returned for a result that is not a command although
\* it names the intent note_add and a user
C23_Witness ==
    /\ family = "execute"
    /\ pc = "respond"
    /\ ~Parsed.is_command
    /\ Parsed.command_type = "note_add"
    /\ ParamUser(Parsed.params) = "alice"

\* The texts format_current can build around the descriptor temp_feel
Sentences(temp_feel) ==
    { Capitalize(temp_feel) \o "." \o w \o h :
        w \in {"", " Veter."}, h \in {"", " Vysokaya vlazhnost."} }

\* The interval of rounded temperatures stated for each descriptor
StatedInterval(temp_feel, t) ==
    CASE temp_feel = "ochen kholodno" -> t <= -15
      [] temp_feel = "kholodno" -> -15 < t /\ t <= -5
      [] temp_feel = "prokhladno" -> -5 < t /\ t <= 5
      [] temp_feel = "umerenno" -> 5 < t /\ t <= 15
      [] temp_feel = "teplo" -> 15 < t /\ t <= 25
      [] temp_feel = "zharko" -> t > 25

TempFeels ==
    {"ochen kholodno", "kholodno", "prokhladno", "umerenno", "teplo", "zharko"}

\* C24: for every integer temperature t the text of format_current carries
\* the descriptor whose interval holds t (very cold t <= -15, cold
\* -15 < t <= -5, cool -5 < t <= 5, moderate 5 < t <= 15, warm 15 < t <= 25,
\* hot t > 25), and exactly one descriptor.
C24_DescriptorIntervals ==
    (pc = "formatted" /\ weather.success) =>
        /\ \A f \in TempFeels :
              reply.detail \in Sentences(f) <=> StatedInterval(f, weather.temp)
        /\ Cardinality({ f \in TempFeels : reply.detail \in Sentences(f) }) = 1

\* The boundary temperature -15 has been formatted, as very cold
C24_Witness ==
    /\ pc = "formatted"
    /\ weather.success
    /\ weather.temp = -15
    /\ reply.detail \in Sentences("ochen kholodno")

\* The collaborator calls of the request that went to integration name
CallsTo(name) ==
    { i \in 1..Len(trace) :
        trace[i].op \in { name \o "." \o a :
            a \in {"list_devices", "turn_on", "turn_off", "get_state", "execute"} } }

\* C25: a smart-home command goes to Home Assistant before MQTT: when Home
\* Assistant is registered and connected the command is answered from Home
\* Assistant alone and mqtt.execute is never called, also when Home Assistant
\* reports a failure, raises or does not know the device; mqtt.execute is
\* called only when Home Assistant is absent or not connected and MQTT is
\* connected.
C25_HomeAssistantBeforeMqtt ==
    (family = "execute" /\ Parsed.command_type = "smart_home") =>
        /\ cfg.home_assistant => CallsTo("mqtt") = {}
        /\ CallsTo("mqtt") # {} => ~cfg.home_assistant /\ cfg.mqtt

\* Both integrations are connected, Home Assistant was asked and did not
\* carry the action out, and the command was answered with success=false
C25_Witness ==
    /\ family = "execute"
    /\ pc = "respond"
    /\ Parsed.command_type = "smart_home"
    /\ cfg.home_assistant
    /\ cfg.mqtt
    /\ CallsTo("ha") # {}
    /\ ~ret.success

DistinctIds(rs) == \A i, j \in 1..Len(rs) : i # j => rs[i].id # rs[j].id

\* C27: after any sequence of add_note and delete_note (add_task and
\* delete_task) calls on one user's store, several of them within the same
\* clock second included, all the user's notes (tasks) have pairwise
\* different ids.
C27_IdsPairwiseDifferent ==
    \A u \in Users : DistinctIds(notes[u]) /\ DistinctIds(tasks[u])

\* C28: after any sequence of log_habit calls on a log that started empty, a
\* user's log holds at most one entry for each habit and date: logging a
\* habit that is already logged today updates that entry and adds none.
C28_OneLogPerHabitAndDay ==
    \A u \in Users : \A i, j \in 1..Len(habit_logs[u]) :
        (/\ habit_logs[u][i].habit_id = habit_logs[u][j].habit_id
         /\ habit_logs[u][i].date = habit_logs[u][j].date) => i = j

\* A habit logged on two days was logged again on the second day: the call
\* found the two entries and left two
C28_Witness ==
    /\ family = "habits"
    /\ workers[1].pc = "done"
    /\ workers[1].op = "log_habit"
    /\ workers[1].result = "found"
    /\ Len(workers[1].logs) = 2
    /\ habit_logs[workers[1].user_id] = workers[1].logs
    /\ workers[1].logs[1].habit_id = workers[1].logs[2].habit_id
    /\ workers[1].logs[2].date = Today(now)

\* The positions of the tasks of ts that are not done and whose title
\* contains task_title
PendingMatches(ts, task_title) ==
    { i \in 1..Len(ts) : ts[i].status # "done" /\ TaskMatches(ts[i], task_title) }

\* C29: completing a task by title makes progress: whenever the user has a
\* task that is not done and whose title contains the given title,
\* complete_task marks one such task done; it never picks a task that is
\* already done while a matching pending one is there.
C29_CompleteTaskProgress ==
    [][ \A w \in Workers :
          (/\ workers[w].pc = "loaded"
           /\ workers'[w].pc = "done"
           /\ workers[w].op = "complete_task"
           /\ PendingMatches(tasks[workers[w].user_id], workers[w].arg) # {})
          => \E i \in PendingMatches(tasks[workers[w].user_id], workers[w].arg) :
                tasks'[workers[w].user_id][i].status = "done" ]_vars

\* The entries of log ls for the habit with id habit_id
EntriesOf(ls, habit_id) == SelectSeq(ls, LAMBDA l : l.habit_id = habit_id)

\* The positions of the active habits of hs whose name contains habit_name
ActiveMatches(hs, habit_name) ==
    { i \in 1..Len(hs) : hs[i].active /\ HabitMatches(hs[i], habit_name) }

\* C30: a habit deactivated by delete_habit is never logged again: a later
\* log_habit by name creates no log entry for it and changes none, and is
\* answered as not found unless another, active habit matches the name.
C30_DeactivatedNeverLogged ==
    [][ \A w \in Workers :
          (/\ workers[w].pc = "loaded"
           /\ workers'[w].pc = "done"
           /\ workers[w].op = "log_habit")
          => LET u == workers[w].user_id
             IN  /\ \A i \in 1..Len(habits[u]) :
                       ~habits[u][i].active =>
                           EntriesOf(habit_logs'[u], habits[u][i].id)
                               = EntriesOf(habit_logs[u], habits[u][i].id)
                 /\ ActiveMatches(habits[u], workers[w].arg) = {} =>
                       /\ workers'[w].result = "none"
                       /\ habit_logs' = habit_logs ]_vars

=============================================================================
